---------------------------- MODULE Spec2Model ----------------------------
(***************************************************************************)
(* Model of the vault indexing core (src/src/vault): the note parser       *)
(* (parser.py), the Note record (note.py) and VaultIndex (index.py).       *)
(*                                                                         *)
(* Text is a sequence of one-character strings.  A Python dict is an       *)
(* insertion-ordered sequence of [k, v] entries.  A YAML value is a record *)
(* [t, s, items]: t is its Python type ("null", "int", "str", "list",      *)
(* "map"), s the characters of a scalar, items the elements of a list or   *)
(* the entries of a mapping.                                               *)
(***************************************************************************)
EXTENDS Integers, Sequences, FiniteSets, TLC

VARIABLES fs, index, status, fresh, edits, before, lastGood, arg, call, todos

vars == <<fs, index, status, fresh, edits, before, lastGood, arg, call, todos>>

-----------------------------------------------------------------------------
(* Bounds of the model.                                                    *)

\* external file-system changes in one behaviour
MaxEdits == 3
\* consecutive build() calls without a file-system change in between
MaxRepeat == 2

-----------------------------------------------------------------------------
(* Characters and strings.                                                 *)

\* the characters of the model, in increasing code-point order; the
\* character U+0060 is written "backtick" and U+2014 "emdash"
CharOrder ==
    << "\t", "\n", " ", "!", "#", "(", ")", "*", ",", "-", ".", "/", "0", "1",
       "2", "6", "7", ":", "<", "A", "B", "K", "T", "[", "]", "_", "backtick",
       "a", "b", "c", "d", "e", "f", "g", "h", "i", "j", "k", "l", "m", "n",
       "o", "p", "q", "r", "s", "t", "u", "v", "w", "x", "y", "z", "|", "~",
       "emdash" >>

Upper == << "A", "B", "K", "T" >>
Lower == << "a", "b", "k", "t" >>
Digits == { "0", "1", "2", "6", "7" }
Letters == { "A", "B", "K", "T", "a", "b", "c", "d", "e", "f", "g", "h", "i",
             "j", "k", "l", "m", "n", "o", "p", "q", "r", "s", "t", "u", "v",
             "w", "x", "y", "z" }

\* ord(c), up to an order-preserving renumbering
CodePoint(c) == CHOOSE i \in 1..Len(CharOrder) : CharOrder[i] = c

\* regex \w
IsWord(c) == c \in Letters \cup Digits \cup { "_" }

\* str.isspace() on the characters of the model
IsSpace(c) == c \in { " ", "\t", "\n" }

\* str.lower() on one character
LowerChar(c) ==
    IF \E i \in 1..Len(Upper) : Upper[i] = c
    THEN Lower[CHOOSE i \in 1..Len(Upper) : Upper[i] = c]
    ELSE c

\* str.lower()
StrLower(s) == [i \in 1..Len(s) |-> LowerChar(s[i])]

\* s[i:] with a 1-based first position
Drop(s, i) == SubSeq(s, i, Len(s))

\* s.startswith(p, i - 1)
StartsAt(s, i, p) ==
    /\ i >= 1
    /\ i + Len(p) - 1 <= Len(s)
    /\ SubSeq(s, i, i + Len(p) - 1) = p

\* s.endswith(p)
EndsWith(s, p) == Len(s) >= Len(p) /\ StartsAt(s, Len(s) - Len(p) + 1, p)

\* q in s
Contains(s, q) == \E i \in 1..(Len(s) + 1) : StartsAt(s, i, q)

\* x in list
InSeq(x, l) == \E i \in 1..Len(l) : l[i] = x

\* first position >= i of s whose character is not in set cs (Len(s)+1 if none)
SkipWhile(s, i, cs) ==
    IF \E j \in i..Len(s) : s[j] \notin cs
    THEN CHOOSE j \in i..Len(s) : s[j] \notin cs /\ \A k \in i..(j - 1) : s[k] \in cs
    ELSE Len(s) + 1

\* first position >= i of s whose character is in set cs (Len(s)+1 if none)
SkipUntil(s, i, cs) ==
    IF \E j \in i..Len(s) : s[j] \in cs
    THEN CHOOSE j \in i..Len(s) : s[j] \in cs /\ \A k \in i..(j - 1) : s[k] \notin cs
    ELSE Len(s) + 1

\* str.strip()
StripFrom(s, a) ==
    IF a > Len(s) THEN << >>
    ELSE SubSeq(s, a, CHOOSE j \in a..Len(s) :
                        /\ ~IsSpace(s[j])
                        /\ \A k \in (j + 1)..Len(s) : IsSpace(s[k]))

Strip(s) == StripFrom(s, SkipWhile(s, 1, { " ", "\t", "\n" }))

\* str.split(sep) for a one-character separator
RECURSIVE Split(_, _)
SplitAt(s, sep, j) ==
    IF j > Len(s) THEN << s >>
    ELSE << SubSeq(s, 1, j - 1) >> \o Split(Drop(s, j + 1), sep)

Split(s, sep) == SplitAt(s, sep, SkipUntil(s, 1, { sep }))

\* s.strip(chars)
StripCharsFrom(s, cs, a) ==
    IF a > Len(s) THEN << >>
    ELSE SubSeq(s, a, CHOOSE j \in a..Len(s) :
                        /\ s[j] \notin cs
                        /\ \A k \in (j + 1)..Len(s) : s[k] \in cs)

StripChars(s, cs) == StripCharsFrom(s, cs, SkipWhile(s, 1, cs))

\* s.replace(old, "")
RECURSIVE Remove(_, _)
Remove(s, old) ==
    IF s = << >> THEN << >>
    ELSE IF StartsAt(s, 1, old) THEN Remove(Drop(s, Len(old) + 1), old)
    ELSE << Head(s) >> \o Remove(Tail(s), old)

\* s.splitlines() and s.splitlines(keepends=True), the line feed being the
\* one line boundary among the characters of the model
RECURSIVE SplitLines(_, _)
SplitLinesAt(s, keepends, j) ==
    IF j > Len(s) THEN << s >>
    ELSE << SubSeq(s, 1, IF keepends THEN j ELSE j - 1) >>
         \o SplitLines(Drop(s, j + 1), keepends)

SplitLines(s, keepends) ==
    IF s = << >> THEN << >> ELSE SplitLinesAt(s, keepends, SkipUntil(s, 1, { "\n" }))

\* s < t for Python strings (lexicographic by code point)
RECURSIVE StrLess(_, _)
StrLess(s, t) ==
    IF Len(t) = 0 THEN FALSE
    ELSE IF Len(s) = 0 THEN TRUE
    ELSE IF s[1] # t[1] THEN CodePoint(s[1]) < CodePoint(t[1])
    ELSE StrLess(Tail(s), Tail(t))

-----------------------------------------------------------------------------
(* Python dict: insertion-ordered entries [k, v].                          *)

EmptyDict == << >>

\* k in d
DictHas(d, k) == \E i \in 1..Len(d) : d[i].k = k

\* d[k]
DictGet(d, k) == d[CHOOSE i \in 1..Len(d) : d[i].k = k].v

\* d[k] = v: an existing key keeps its position, a new key goes last
DictSet(d, k, v) ==
    IF DictHas(d, k)
    THEN [i \in 1..Len(d) |-> IF d[i].k = k THEN [k |-> k, v |-> v] ELSE d[i]]
    ELSE Append(d, [k |-> k, v |-> v])

\* list(d), list(d.values())
DictKeys(d) == [i \in 1..Len(d) |-> d[i].k]
DictValues(d) == [i \in 1..Len(d) |-> d[i].v]

\* the elements of a list, as a set
Range(l) == { l[i] : i \in 1..Len(l) }

\* a list has no two equal elements
NoDuplicates(l) == \A i, j \in 1..Len(l) : l[i] = l[j] => i = j

\* [x for x in l if x in keep]
RECURSIVE SelectIn(_, _)
SelectIn(l, keep) ==
    IF l = << >> THEN << >>
    ELSE (IF Head(l) \in keep THEN << Head(l) >> ELSE << >>) \o SelectIn(Tail(l), keep)

-----------------------------------------------------------------------------
(* pathlib: paths are strings relative to vault_dir.                       *)

\* PurePosixPath(p).parts: empty and "." components are dropped
DropDots(parts) == SelectIn(parts, Range(parts) \ { << >>, << "." >> })

PathParts(p) == DropDots(Split(p, "/"))

LastOrEmpty(parts) == IF parts = << >> THEN << >> ELSE parts[Len(parts)]

\* PurePosixPath(p).name
PathName(p) == LastOrEmpty(PathParts(p))

\* the stem of a name: the name without its last suffix; a leading or a
\* trailing dot starts no suffix
StemOfName(name) ==
    LET dots == { i \in 1..Len(name) : name[i] = "." }
        last == CHOOSE i \in dots : \A j \in dots : j <= i
    IN IF dots = {} THEN name
       ELSE IF 1 < last /\ last < Len(name) THEN SubSeq(name, 1, last - 1)
       ELSE name

\* PurePosixPath(p).stem
PathStem(p) == StemOfName(PathName(p))

\* tuple comparison of the parts of two paths: PurePath.__lt__
RECURSIVE PartsLess(_, _)
PartsLess(a, b) ==
    IF b = << >> THEN FALSE
    ELSE IF a = << >> THEN TRUE
    ELSE IF a[1] # b[1] THEN StrLess(a[1], b[1])
    ELSE PartsLess(Tail(a), Tail(b))

PathLess(p, q) == PartsLess(PathParts(p), PathParts(q))

\* sorted(paths) for a set of paths
\* sorted(paths, reverse=True)
RECURSIVE SortedDescending(_)
SortedDescending(ps) ==
    IF ps = {} THEN << >>
    ELSE LET m == CHOOSE p \in ps : \A q \in ps \ { p } : PathLess(q, p)
         IN << m >> \o SortedDescending(ps \ { m })

RECURSIVE SortedPaths(_)
SortedFrom(ps, m) == << m >> \o SortedPaths(ps \ { m })

SortedPaths(ps) ==
    IF ps = {} THEN << >>
    ELSE SortedFrom(ps, CHOOSE p \in ps : \A q \in ps \ { p } : PathLess(p, q))

-----------------------------------------------------------------------------
(* yaml.safe_load, restricted to the subset of YAML the notes of the model *)
(* use: a document start marker, comments, blank lines, a block mapping of *)
(* "key: value" lines at one indentation, plain scalars (null, decimal     *)
(* integers without a leading zero, strings; folded when they span lines)  *)
(* and one-line flow sequences of plain scalars.                           *)

YNull == [t |-> "null", s |-> << >>, items |-> << >>]
YInt(s) == [t |-> "int", s |-> s, items |-> << >>]
YStr(s) == [t |-> "str", s |-> s, items |-> << >>]
YList(items) == [t |-> "list", s |-> << >>, items |-> items]
YMap(entries) == [t |-> "map", s |-> << >>, items |-> entries]
\* yaml.YAMLError raised
YError == [t |-> "error", s |-> << >>, items |-> << >>]

\* bool(v) of a loaded value
Truthy(v) ==
    CASE v.t = "null" -> FALSE
      [] v.t = "int" -> v.s # << "0" >>
      [] v.t = "str" -> v.s # << >>
      [] OTHER -> v.items # << >>

\* the line up to a comment: a "#" at the start or after white space
StripComment(line) ==
    LET at == { i \in 1..Len(line) : line[i] = "#" /\ (i = 1 \/ IsSpace(line[i - 1])) }
    IN IF at = {} THEN line
       ELSE SubSeq(line, 1, (CHOOSE i \in at : \A j \in at : i <= j) - 1)

\* the resolver of a plain scalar (already stripped)
ResolveScalar(s) ==
    IF s = << >> THEN YNull
    ELSE IF (\A i \in 1..Len(s) : s[i] \in Digits) /\ (Len(s) = 1 \/ s[1] # "0")
    THEN YInt(s)
    ELSE YStr(s)

\* a position of line where a mapping value indicator stands: a ":" followed
\* by a space or ending the line
ColonAt(line) ==
    { i \in 1..Len(line) : line[i] = ":" /\ (i = Len(line) \/ line[i + 1] = " ") }

\* the items of a flow sequence, stripped
FlowItems(parts) == [i \in 1..Len(parts) |-> Strip(parts[i])]

\* a flow sequence from its stripped items
FlowSequence(items) ==
    IF items = << << >> >> THEN YList(<< >>)
    ELSE IF \E i \in 1..Len(items) : items[i] = << >> THEN YError
    ELSE YList([i \in 1..Len(items) |-> ResolveScalar(items[i])])

\* a node written on one line: a flow sequence or a plain scalar
ResolveNode(s) ==
    IF s # << >> /\ s[1] = "["
    THEN IF s[Len(s)] # "]" \/ (\E i \in 2..(Len(s) - 1) : s[i] \in { "[", "]" })
         THEN YError
         ELSE FlowSequence(FlowItems(Split(SubSeq(s, 2, Len(s) - 1), ",")))
    ELSE IF ColonAt(s) # {} \/ (s # << >> /\ s[1] \in { "]", "backtick", "|", "," })
    THEN YError
    ELSE ResolveScalar(s)

\* the entries of a block mapping, a later duplicate key replacing the value
RECURSIVE LoadMapping(_, _)
LoadEntry(lines, acc, key, val) ==
    IF key.t \notin { "int", "str" } \/ val.t = "error" THEN YError
    ELSE LoadMapping(Tail(lines), DictSet(acc, key, val))

LoadLine(lines, acc, line, c) ==
    LoadEntry(lines, acc, ResolveNode(Strip(SubSeq(line, 1, c - 1))),
              ResolveNode(Strip(Drop(line, c + 1))))

LoadMapping(lines, acc) ==
    IF lines = << >> THEN YMap(acc)
    ELSE LoadLine(lines, acc, Head(lines),
                  CHOOSE i \in ColonAt(Head(lines)) : \A j \in ColonAt(Head(lines)) : i <= j)

\* the document start marker, when it is the first line, is no content
DocStart(lines) ==
    IF lines # << >> /\ Head(lines) = << "-", "-", "-" >> THEN Tail(lines) ELSE lines

\* a line without its comment, stripped; << >> for a blank line and
\* << "#" >> for a line that holds a comment only
LineMark(line, s) ==
    IF s # << >> THEN s ELSE IF Strip(line) = << >> THEN << >> ELSE << "#" >>

DocumentLines(lines) ==
    [i \in 1..Len(lines) |-> LineMark(lines[i], Strip(StripComment(lines[i])))]

IsContent(l) == l # << >> /\ l # << "#" >>

ContentLines(ls) == SelectSeq(ls, IsContent)

\* a comment line between two lines of a plain scalar ends the scalar
Interrupted(ls) ==
    \E i, j, k \in 1..Len(ls) :
        i < j /\ j < k /\ IsContent(ls[i]) /\ ls[j] = << "#" >> /\ IsContent(ls[k])

\* line folding of a plain scalar: a line break becomes a space, a line
\* break followed by n blank lines becomes n line feeds
LineFeeds(n) == [i \in 1..n |-> "\n"]

RECURSIVE FoldLines(_, _, _)
FoldLines(ls, i, blanks) ==
    IF i > Len(ls) THEN << >>
    ELSE IF ~IsContent(ls[i]) THEN FoldLines(ls, i + 1, blanks + 1)
    ELSE (IF blanks = 0 THEN << " " >> ELSE LineFeeds(blanks))
         \o ls[i] \o FoldLines(ls, i + 1, 0)

Folded(ls) ==
    LET first == CHOOSE i \in 1..Len(ls) :
                     IsContent(ls[i]) /\ \A j \in 1..(i - 1) : ~IsContent(ls[j])
    IN ls[first] \o FoldLines(ls, first + 1, 0)

LoadLines(ls, lines) ==
    LET keyed == { i \in 1..Len(lines) : ColonAt(lines[i]) # {} /\ lines[i][1] # "[" }
    IN IF lines = << >> THEN YNull
       ELSE IF keyed = 1..Len(lines) THEN LoadMapping(lines, EmptyDict)
       ELSE IF keyed = {} /\ ~Interrupted(ls) THEN ResolveNode(Folded(ls))
       ELSE YError

LoadDocument(ls) == LoadLines(ls, ContentLines(ls))

safe_load(text) == LoadDocument(DocumentLines(DocStart(Split(text, "\n"))))

-----------------------------------------------------------------------------
(* parser.py                                                               *)

Dashes == << "-", "-", "-" >>

\* _FRONTMATTER_RE.match(content): ^---[ \t]*\n(.*?)\n---[ \t]*\n (DOTALL);
\* end is the position of the last character of the match
FrontmatterMatch(content) ==
    LET blank == { " ", "\t" }
        open == IF StartsAt(content, 1, Dashes) THEN SkipWhile(content, 4, blank) ELSE 0
        okOpen == open > 0 /\ open <= Len(content) /\ content[open] = "\n"
        Closes(k) ==
            /\ content[k] = "\n"
            /\ StartsAt(content, k + 1, Dashes)
            /\ LET j == SkipWhile(content, k + 4, blank)
               IN j <= Len(content) /\ content[j] = "\n"
        cands == IF okOpen THEN { k \in (open + 1)..Len(content) : Closes(k) } ELSE {}
        first == CHOOSE k \in cands : \A m \in cands : k <= m
    IN IF cands = {} THEN [matched |-> FALSE, group1 |-> << >>, end |-> 0]
       ELSE [matched |-> TRUE,
             group1 |-> SubSeq(content, open + 1, first - 1),
             end |-> SkipWhile(content, first + 4, blank)]

\* yaml.safe_load(...) or {}, and {} after a YAMLError
MetaOrEmpty(loaded) ==
    IF loaded.t # "error" /\ Truthy(loaded) THEN loaded ELSE YMap(EmptyDict)

SplitFrontmatter(content, match) ==
    IF ~match.matched THEN [meta |-> YMap(EmptyDict), body |-> content]
    ELSE [meta |-> MetaOrEmpty(safe_load(match.group1)),
          body |-> Drop(content, match.end + 1)]

parse_frontmatter(content) == SplitFrontmatter(content, FrontmatterMatch(content))

\* result.append(x) for each x of l not seen before
RECURSIVE UniqueInOrder(_, _)
UniqueInOrder(l, seen) ==
    IF l = << >> THEN << >>
    ELSE IF Head(l) \in seen THEN UniqueInOrder(Tail(l), seen)
    ELSE << Head(l) >> \o UniqueInOrder(Tail(l), seen \cup { Head(l) })

\* first position after group 1 of _WIKILINK_RE for a match tried at i
WikilinkGroupEnd(text, i) == SkipUntil(text, i + 2, { "]", "|", "#" })

\* _WIKILINK_RE = \[\[([^\]|#]+)(?:[|#][^\]]*)?\]\] matched at position i:
\* the position of the last character of the match, 0 without a match
WikilinkClose(text, c) == IF StartsAt(text, c, << "]", "]" >>) THEN c + 1 ELSE 0

WikilinkTail(text, i, g) ==
    IF g = i + 2 \/ g > Len(text) THEN 0
    ELSE WikilinkClose(text, IF text[g] = "]" THEN g ELSE SkipUntil(text, g + 1, { "]" }))

WikilinkEnd(text, i) ==
    IF ~StartsAt(text, i, << "[", "[" >>) THEN 0
    ELSE WikilinkTail(text, i, WikilinkGroupEnd(text, i))

\* [m.group(1) for m in _WIKILINK_RE.finditer(text)], scanning from i; a
\* position without a match is followed by the next "[" of the text
RECURSIVE WikilinkGroups(_, _)
WikilinkNext(text, i, e) ==
    IF e = 0 THEN WikilinkGroups(text, SkipUntil(text, i + 1, { "[" }))
    ELSE << SubSeq(text, i + 2, WikilinkGroupEnd(text, i) - 1) >>
         \o WikilinkGroups(text, e + 1)

WikilinkGroups(text, i) ==
    IF i > Len(text) THEN << >> ELSE WikilinkNext(text, i, WikilinkEnd(text, i))

\* m.group(1).strip() for each match
StripAll(groups) == [i \in 1..Len(groups) |-> Strip(groups[i])]

\* parse_wikilinks without the strip() of the target
wikilinks_unstripped(text) == UniqueInOrder(WikilinkGroups(text, 1), {})

parse_wikilinks(text) == UniqueInOrder(StripAll(WikilinkGroups(text, 1)), {})

\* [\w/-]
IsTagChar(c) == IsWord(c) \/ c \in { "/", "-" }

\* _TAG_RE = (?<![`\w/#])#([\w/-]+) matched at position i: the position of
\* the last character of the match, 0 without a match
TagClose(i, e) == IF e = i + 1 THEN 0 ELSE e - 1

\* _TAG_RE without its lookbehind
TagEndAnywhere(text, i) ==
    IF text[i] # "#" THEN 0
    ELSE TagClose(i, SkipWhile(text, i + 1, { c \in Range(text) : IsTagChar(c) }))

TagEnd(text, i) ==
    IF text[i] # "#" THEN 0
    ELSE IF i > 1 /\ (IsWord(text[i - 1]) \/ text[i - 1] \in { "backtick", "/", "#" }) THEN 0
    ELSE TagClose(i, SkipWhile(text, i + 1, { c \in Range(text) : IsTagChar(c) }))

\* [m.group(1) for m in _TAG_RE.finditer(text)], scanning from i; a
\* position without a match is followed by the next "#" of the text
RECURSIVE TagGroups(_, _)
TagNext(text, i, e) ==
    IF e = 0 THEN TagGroups(text, SkipUntil(text, i + 1, { "#" }))
    ELSE << SubSeq(text, i + 1, e) >> \o TagGroups(text, e + 1)

TagGroups(text, i) ==
    IF i > Len(text) THEN << >> ELSE TagNext(text, i, TagEnd(text, i))

parse_tags(text) == UniqueInOrder(TagGroups(text, 1), {})

-----------------------------------------------------------------------------
(* note.py                                                                 *)

Note(path, title, body, tags, links, frontmatter) ==
    [path |-> path, title |-> title, body |-> body, tags |-> tags,
     links |-> links, frontmatter |-> frontmatter]

\* Note.slug
slug(note) == PathStem(note.path)

-----------------------------------------------------------------------------
(* parse_note.  A file is [exists, utf8, text]: utf8 is FALSE for a file   *)
(* whose bytes are not valid UTF-8.  The result is [raised, note], raised  *)
(* naming the exception that left the function ("" for a normal return).   *)

NoFile == [exists |-> FALSE, utf8 |-> TRUE, text |-> << >>]
TextFile(text) == [exists |-> TRUE, utf8 |-> TRUE, text |-> text]
BytesFile == [exists |-> TRUE, utf8 |-> FALSE, text |-> << >>]

NoNote == Note(<< >>, YNull, << >>, << >>, << >>, YNull)
Raise(exception) == [raised |-> exception, note |-> NoNote]
Return(note) == [raised |-> "", note |-> note]

\* frontmatter.get(key) on a dict
MetaGet(meta, key) ==
    IF DictHas(meta.items, YStr(key)) THEN DictGet(meta.items, YStr(key)) ELSE YNull

\* [t.strip() for t in fm_tags.split(",") if t.strip()]
RECURSIVE StrippedParts(_)
StrippedFrom(parts, t) ==
    (IF t = << >> THEN << >> ELSE << YStr(t) >>) \o StrippedParts(Tail(parts))

StrippedParts(parts) ==
    IF parts = << >> THEN << >> ELSE StrippedFrom(parts, Strip(Head(parts)))

KeyTags == << "t", "a", "g", "s" >>
KeyTitle == << "t", "i", "t", "l", "e" >>

\* x or default
OrElse(x, default) == IF Truthy(x) THEN x ELSE default

\* fm_tags after the isinstance(fm_tags, str) branch
SplitTags(fm_tags) ==
    IF fm_tags.t = "str" THEN YList(StrippedParts(Split(fm_tags.s, ","))) ELSE fm_tags

\* fm_tags + inline_tags without the dict.fromkeys
MergeTagsAppending(fm_tags, inline_tags) ==
    fm_tags.items \o [i \in 1..Len(inline_tags) |-> YStr(inline_tags[i])]

\* list(dict.fromkeys(fm_tags + inline_tags)) for a list fm_tags
MergeTags(fm_tags, inline_tags) ==
    UniqueInOrder(fm_tags.items \o [i \in 1..Len(inline_tags) |-> YStr(inline_tags[i])], {})

\* parse_note from the tags statement on: fm_tags + inline_tags raises
\* TypeError unless fm_tags is a list
NoteWithTags(path, frontmatter, body, fm_tags) ==
    IF fm_tags.t # "list" THEN Raise("TypeError")
    ELSE Return(Note(path,
                     OrElse(MetaGet(frontmatter, KeyTitle), YStr(PathStem(path))),
                     body,
                     MergeTags(fm_tags, parse_tags(body)),
                     parse_wikilinks(body),
                     frontmatter))

\* parse_note after parse_frontmatter: frontmatter.get raises AttributeError
\* unless frontmatter is a dict
NoteOf(path, frontmatter, body) ==
    IF frontmatter.t # "map" THEN Raise("AttributeError")
    ELSE NoteWithTags(path, frontmatter, body,
                      SplitTags(OrElse(MetaGet(frontmatter, KeyTags), YList(<< >>))))

NoteFrom(path, fm) == NoteOf(path, fm.meta, fm.body)

\* path.read_text(encoding="utf-8") raises UnicodeDecodeError
parse_note(path, file) ==
    IF ~file.utf8 THEN Raise("UnicodeDecodeError")
    ELSE NoteFrom(path, parse_frontmatter(file.text))

-----------------------------------------------------------------------------
(* index.py: VaultIndex.  self is [notes, backlinks, tags]; vault_dir is   *)
(* the directory the file system of the model describes.                   *)

VaultIndex__init__ == [notes |-> EmptyDict, backlinks |-> EmptyDict, tags |-> EmptyDict]

DotMd == << ".", "m", "d" >>

\* glob("**/*") in place of glob("**/*.md")
GlobEveryFile(files) == { p \in DOMAIN files : files[p].exists }

\* vault_dir.glob("**/*.md")
Glob(files) == { p \in DOMAIN files : files[p].exists /\ EndsWith(PathName(p), DotMd) }

_normalise_link(link) ==
    IF InSeq("/", link) \/ EndsWith(link, DotMd) THEN PathStem(link) ELSE link

\* the loop of build(): stops at the first parse_note that raises
RECURSIVE ScanNotes(_, _, _)
ScanStep(paths, files, notes, r) ==
    IF r.raised # "" THEN [raised |-> r.raised, notes |-> notes]
    ELSE ScanNotes(Tail(paths), files, DictSet(notes, slug(r.note), r.note))

ScanNotes(paths, files, notes) ==
    IF paths = << >> THEN [raised |-> "", notes |-> notes]
    ELSE ScanStep(paths, files, notes, parse_note(Head(paths), files[Head(paths)]))

\* the append without its guard "if slug not in ..."
AppendAlways(d, key, s) ==
    DictSet(d, key, Append(IF DictHas(d, key) THEN DictGet(d, key) ELSE << >>, s))

\* setdefault(key, []) followed by the guarded append of one slug
AppendOnce(d, key, s) ==
    LET cur == IF DictHas(d, key) THEN DictGet(d, key) ELSE << >>
    IN DictSet(d, key, IF InSeq(s, cur) THEN cur ELSE Append(cur, s))

\* the loops of _build_backlinks, from link j of note i
RECURSIVE BacklinksLoop(_, _, _, _)
BacklinksLoop(notes, i, j, backlinks) ==
    IF i > Len(notes) THEN backlinks
    ELSE IF j > Len(notes[i].v.links) THEN BacklinksLoop(notes, i + 1, 1, backlinks)
    ELSE BacklinksLoop(notes, i, j + 1,
             AppendOnce(backlinks, _normalise_link(notes[i].v.links[j]), notes[i].k))

_build_backlinks(self) ==
    [self EXCEPT !.backlinks =
        BacklinksLoop(self.notes, 1, 1,
            [i \in 1..Len(self.notes) |-> [k |-> self.notes[i].k, v |-> << >>]])]

\* the loops of _build_tags, from tag j of note i
RECURSIVE TagsLoop(_, _, _, _)
TagsLoop(notes, i, j, tags) ==
    IF i > Len(notes) THEN tags
    ELSE IF j > Len(notes[i].v.tags) THEN TagsLoop(notes, i + 1, 1, tags)
    ELSE TagsLoop(notes, i, j + 1, AppendOnce(tags, notes[i].v.tags[j], notes[i].k))

\* for each key of new, in order: the list d holds for it extended by new's
RECURSIVE ExtendLists(_, _, _)
ExtendLists(d, new, i) ==
    IF i > Len(new) THEN d
    ELSE ExtendLists(
             DictSet(d, new[i].k,
                     (IF DictHas(d, new[i].k) THEN DictGet(d, new[i].k) ELSE << >>)
                     \o new[i].v),
             new, i + 1)

\* _build_tags patching the lists of the previous build instead of
\* replacing them
build_tags_patching(self) ==
    [self EXCEPT !.tags = ExtendLists(self.tags, TagsLoop(self.notes, 1, 1, EmptyDict), 1)]

_build_tags(self) == [self EXCEPT !.tags = TagsLoop(self.notes, 1, 1, EmptyDict)]

\* build(): [raised, self]; an exception of parse_note leaves self.notes as
\* the loop left it and the other two attributes as they were
Rebuild(scanned, raised) ==
    IF raised # "" THEN [raised |-> raised, self |-> scanned]
    ELSE [raised |-> "", self |-> _build_tags(_build_backlinks(scanned))]

Scanned(self, scan) == Rebuild([self EXCEPT !.notes = scan.notes], scan.raised)

\* build() without the statement self.notes = {}
build_keeping_notes(self, files) ==
    Scanned(self, ScanNotes(SortedPaths(Glob(files)), files, self.notes))

build(self, files) == Scanned(self, ScanNotes(SortedPaths(Glob(files)), files, EmptyDict))

\* the inner loop of edges() for one note
EdgesOf(entry) ==
    [j \in 1..Len(entry.v.links) |-> << entry.k, _normalise_link(entry.v.links[j]) >>]

RECURSIVE EdgesLoop(_, _)
EdgesLoop(notes, i) ==
    IF i > Len(notes) THEN << >> ELSE EdgesOf(notes[i]) \o EdgesLoop(notes, i + 1)

\* edges() appending the link as written
RECURSIVE RawEdgesLoop(_, _)
RawEdgesLoop(notes, i) ==
    IF i > Len(notes) THEN << >>
    ELSE [j \in 1..Len(notes[i].v.links) |-> << notes[i].k, notes[i].v.links[j] >>]
         \o RawEdgesLoop(notes, i + 1)

edges_as_written(self) == RawEdgesLoop(self.notes, 1)

\* edges() returning each pair once
edges_deduplicated(self) == UniqueInOrder(EdgesLoop(self.notes, 1), {})

edges(self) == EdgesLoop(self.notes, 1)

\* the list comprehension of search(): title.lower() raises AttributeError
\* on the first note whose title is not a str
RECURSIVE SearchLoop(_, _, _)
SearchStep(n, q, rest) ==
    IF rest.raised # "" THEN rest
    ELSE [raised |-> "",
          result |-> (IF Contains(StrLower(n.title.s), q) \/ Contains(StrLower(n.body), q)
                      THEN << n >> ELSE << >>) \o rest.result]

SearchLoop(notes, i, q) ==
    IF i > Len(notes) THEN [raised |-> "", result |-> << >>]
    ELSE IF notes[i].v.title.t # "str" THEN [raised |-> "AttributeError", result |-> << >>]
    ELSE SearchStep(notes[i].v, q, SearchLoop(notes, i + 1, q))

search(self, query) == SearchLoop(self.notes, 1, StrLower(query))

\* [self.notes[s] for s in slugs if s in self.notes]
RECURSIVE NotesOf(_, _)
NotesOf(notes, slugs) ==
    IF slugs = << >> THEN << >>
    ELSE (IF DictHas(notes, Head(slugs)) THEN << DictGet(notes, Head(slugs)) >> ELSE << >>)
         \o NotesOf(notes, Tail(slugs))

\* the lists of all tags equal to tag up to letter case, one after another
RECURSIVE SlugsIgnoringCase(_, _, _)
SlugsIgnoringCase(tags, tag, i) ==
    IF i > Len(tags) THEN << >>
    ELSE (IF tags[i].k.t = tag.t /\ StrLower(tags[i].k.s) = StrLower(tag.s)
          THEN tags[i].v ELSE << >>)
         \o SlugsIgnoringCase(tags, tag, i + 1)

\* notes_with_tag() matching the tag without regard to letter case
notes_with_tag_ignoring_case(self, tag) ==
    NotesOf(self.notes, SlugsIgnoringCase(self.tags, tag, 1))

notes_with_tag(self, tag) ==
    NotesOf(self.notes, IF DictHas(self.tags, tag) THEN DictGet(self.tags, tag) ELSE << >>)

-----------------------------------------------------------------------------
(* todos.py.  A TodoItem is [source_slug, line_no, description, raw_line,  *)
(* resolved]; a TodoIndex is the list of its items.                        *)

WhiteSpace == { " ", "\t", "\n" }

\* _SKIP_RE.match(line): ^\s*(```|~~~|<!--)
SkipMarkerAt(line, j) ==
    \/ StartsAt(line, j, << "backtick", "backtick", "backtick" >>)
    \/ StartsAt(line, j, << "~", "~", "~" >>)
    \/ StartsAt(line, j, << "<", "!", "-", "-" >>)

\* _SKIP_RE without the HTML comment opener
SkipMatchFence(line) ==
    LET j == SkipWhile(line, 1, WhiteSpace)
    IN \/ StartsAt(line, j, << "backtick", "backtick", "backtick" >>)
       \/ StartsAt(line, j, << "~", "~", "~" >>)

SkipMatch(line) == SkipMarkerAt(line, SkipWhile(line, 1, WhiteSpace))

NoMatch == [matched |-> FALSE, group1 |-> << >>]
Match(group1) == [matched |-> TRUE, group1 |-> group1]

\* TK(?::\s*(.+))?$ or TK:\s*(.+)$ at position d of s (IGNORECASE), the
\* group being optional or not; f is the first position after ":\s*"
\* (.+) takes the last blank back from \s* when nothing follows the blanks
MarkerTail(s, e, optional, f) ==
    IF e < Len(s) /\ s[e] = ":" THEN Match(Drop(s, IF f <= Len(s) THEN f ELSE Len(s)))
    ELSE IF optional /\ e > Len(s) THEN Match(<< >>)
    ELSE NoMatch

MarkerAt(s, d, optional) ==
    IF ~StartsAt(StrLower(s), d, << "t", "k" >>) THEN NoMatch
    ELSE MarkerTail(s, d + 2, optional, SkipWhile(s, d + 3, WhiteSpace))

\* _TASK_TK_RE.match(s): ^[-*]\s+\[\s*\]\s+TK(?::\s*(.+))?$; b, c, d are the
\* positions of "[", of "]" and of the marker
TaskMarker(s, c, d) ==
    IF c > Len(s) \/ s[c] # "]" \/ d = c + 1 THEN NoMatch ELSE MarkerAt(s, d, TRUE)

TaskBox(s, b, c) ==
    IF b = 2 \/ b > Len(s) \/ s[b] # "[" THEN NoMatch
    ELSE TaskMarker(s, c, SkipWhile(s, c + 1, WhiteSpace))

TaskBullet(s, b) == TaskBox(s, b, SkipWhile(s, b + 1, WhiteSpace))

TaskMatch(s) ==
    IF s = << >> \/ s[1] \notin { "-", "*" } THEN NoMatch
    ELSE TaskBullet(s, SkipWhile(s, 2, WhiteSpace))

\* _COLON_TK_RE.match(s): ^\s*TK:\s*(.+)$
ColonMatch(s) == MarkerAt(s, SkipWhile(s, 1, WhiteSpace), FALSE)

\* _BARE_TK_RE.search(s): \bTK\b
BareSearch(s) ==
    \E i \in 1..(Len(s) - 1) :
        /\ LowerChar(s[i]) = "t" /\ LowerChar(s[i + 1]) = "k"
        /\ i > 1 => ~IsWord(s[i - 1])
        /\ i + 2 <= Len(s) => ~IsWord(s[i + 2])

TodoItem(source_slug, line_no, description, raw_line) ==
    [source_slug |-> source_slug, line_no |-> line_no, description |-> description,
     raw_line |-> raw_line, resolved |-> FALSE]

\* x or default for strings
OrString(x, default) == IF x # << >> THEN x ELSE default

\* stripped.replace("TK", "").strip(" -:").strip() or stripped
BareDescription(stripped) ==
    OrString(Strip(StripChars(Remove(stripped, << "T", "K" >>), { " ", "-", ":" })), stripped)

\* the items one classified line appends: the patterns in priority order
ClassifyBare(source_slug, line_no, line, stripped) ==
    IF BareSearch(stripped)
    THEN << TodoItem(source_slug, line_no, BareDescription(stripped), line) >>
    ELSE << >>

ClassifyColon(source_slug, line_no, line, stripped, m) ==
    IF m.matched THEN << TodoItem(source_slug, line_no, Strip(m.group1), line) >>
    ELSE ClassifyBare(source_slug, line_no, line, stripped)

ClassifyTask(source_slug, line_no, line, stripped, m) ==
    IF m.matched
    THEN << TodoItem(source_slug, line_no, OrString(Strip(m.group1), stripped), line) >>
    ELSE ClassifyColon(source_slug, line_no, line, stripped, ColonMatch(stripped))

\* the bare pattern tried first
ClassifyBareFirst(source_slug, line_no, line, stripped) ==
    IF BareSearch(stripped)
    THEN << TodoItem(source_slug, line_no, BareDescription(stripped), line) >>
    ELSE ClassifyTask(source_slug, line_no, line, stripped, TaskMatch(stripped))

Classify(source_slug, line_no, line, stripped) ==
    ClassifyTask(source_slug, line_no, line, stripped, TaskMatch(stripped))

\* the inner loop of scan_todos from line line_no on
RECURSIVE ScanLines(_, _, _, _)
ScanLine(source_slug, lines, line_no, in_code_block, skip) ==
    IF skip THEN ScanLines(source_slug, lines, line_no + 1, ~in_code_block)
    ELSE IF in_code_block THEN ScanLines(source_slug, lines, line_no + 1, in_code_block)
    ELSE Classify(source_slug, line_no, lines[line_no], Strip(lines[line_no]))
         \o ScanLines(source_slug, lines, line_no + 1, in_code_block)

ScanLines(source_slug, lines, line_no, in_code_block) ==
    IF line_no > Len(lines) THEN << >>
    ELSE ScanLine(source_slug, lines, line_no, in_code_block, SkipMatch(lines[line_no]))

\* enumerate(..., start=0)
Renumbered(items) == [i \in 1..Len(items) |-> [items[i] EXCEPT !.line_no = @ - 1]]

ScanBodyFromZero(source_slug, body) ==
    Renumbered(ScanLines(source_slug, SplitLines(body, FALSE), 1, FALSE))

\* one turn of the outer loop
ScanBody(source_slug, body) == ScanLines(source_slug, SplitLines(body, FALSE), 1, FALSE)

RECURSIVE ScanNotesFrom(_, _)
ScanNotesFrom(notes, i) ==
    IF i > Len(notes) THEN << >>
    ELSE ScanBody(notes[i].k, notes[i].v.body) \o ScanNotesFrom(notes, i + 1)

TodoIndex(items) == [scanned |-> TRUE, items |-> items]

scan_todos(idx) == TodoIndex(ScanNotesFrom(idx.notes, 1))

\* vault_dir / "todos.md"
TodosPath == << "t", "o", "d", "o", "s", ".", "m", "d" >>

\* the text append_todo writes into a new todos.md
TodosHeader ==
    << "-", "-", "-", "\n", "t", "i", "t", "l", "e", ":", " ", "T", "o",
       "d", "o", "s", "\n", "t", "a", "g", "s", ":", " ", "[", "t",
       "o", "d", "o", "s", ",", " ", "m", "e", "t", "a", "]", "\n",
       "-", "-", "-", "\n", "\n", "#", " ", "T", "o", "d", "o", "s",
       "\n", "\n", "_", "A", "u", "t", "o", "-", "g", "e", "n", "e",
       "r", "a", "t", "e", "d", " ", "b", "y", " ", "t", "h", "e",
       " ", "v", "a", "u", "l", "t", " ", "T", "K", " ", "q", "u",
       "i", "c", "k", "-", "c", "a", "p", "t", "u", "r", "e", " ",
       "s", "h", "o", "r", "t", "h", "a", "n", "d", ".", "_", "\n",
       "\n" >>

\* f" (from [[{source_slug}]])" if source_slug else ""
SourceOfPlain(source_slug) ==
    IF source_slug = << >> THEN << >>
    ELSE << " ", "(", "f", "r", "o", "m", " " >> \o source_slug \o << ")" >>

SourceOf(source_slug) ==
    IF source_slug = << >> THEN << >>
    ELSE << " ", "(", "f", "r", "o", "m", " ", "[", "[" >> \o source_slug
         \o << "]", "]", ")" >>

\* f"- [ ] TK: {description}{source} <em dash> {today}\n"
TodoLine(description, source, today) ==
    << "-", " ", "[", " ", "]", " ", "T", "K", ":", " " >> \o description \o source
        \o << " ", "emdash", " " >> \o today \o << "\n" >>

\* fh.write(line) on a file opened with mode "a"
Appended(files, line) == [files EXCEPT ![TodosPath].text = @ \o line]

\* the directory after the exists() test and the write_text of the header
WithTodosFile(files) ==
    IF files[TodosPath].exists THEN files
    ELSE [files EXCEPT ![TodosPath] = TextFile(TodosHeader)]

\* append_todo overwriting the file, mode "w" in place of "a"
append_todo_overwriting(files, description, source_slug, today) ==
    [files EXCEPT ![TodosPath] = TextFile(TodoLine(description, SourceOf(source_slug), today))]

\* append_todo(vault_dir, description, source_slug) on the day today: the
\* directory it leaves
append_todo(files, description, source_slug, today) ==
    Appended(WithTodosFile(files), TodoLine(description, SourceOf(source_slug), today))

\* re.sub(r"\[\s*\]", "[x]", line, count=1); i is the position of the first
\* match, 0 without one
FirstBox(line) ==
    LET at == { i \in 1..Len(line) :
                  /\ line[i] = "["
                  /\ SkipWhile(line, i + 1, WhiteSpace) <= Len(line)
                  /\ line[SkipWhile(line, i + 1, WhiteSpace)] = "]" }
    IN IF at = {} THEN 0 ELSE CHOOSE i \in at : \A j \in at : i <= j

SubBoxAt(line, i) ==
    IF i = 0 THEN line
    ELSE SubSeq(line, 1, i - 1) \o << "[", "x", "]" >>
         \o Drop(line, SkipWhile(line, i + 1, WhiteSpace) + 1)

\* re.sub without count=1: every match is replaced
RECURSIVE SubEveryBox(_)
SubEveryFrom(line, i) ==
    IF i = 0 THEN line
    ELSE SubSeq(line, 1, i - 1) \o << "[", "x", "]" >>
         \o SubEveryBox(Drop(line, SkipWhile(line, i + 1, WhiteSpace) + 1))

SubEveryBox(line) == SubEveryFrom(line, FirstBox(line))

SubBox(line) == SubBoxAt(line, FirstBox(line))

\* "".join(lines)
RECURSIVE Join(_)
Join(lines) == IF lines = << >> THEN << >> ELSE Head(lines) \o Join(Tail(lines))

\* what resolve_todo leaves: [raised, files, item]
Resolved(raised, files, item) == [raised |-> raised, files |-> files, item |-> item]

\* resolve_todo from the splitlines on; idx is item.line_no - 1
ResolveLine(files, item, note_path, lines, idx) ==
    IF 0 <= idx /\ idx < Len(lines)
    THEN Resolved("",
                  [files EXCEPT ![note_path].text =
                      Join([lines EXCEPT ![idx + 1] = SubBox(lines[idx + 1])])],
                  [item EXCEPT !.resolved = TRUE])
    ELSE Resolved("", files, item)

\* resolve_todo once note_path exists: read_text raises UnicodeDecodeError
ResolveIn(files, item, note_path) ==
    IF ~files[note_path].utf8 THEN Resolved("UnicodeDecodeError", files, item)
    ELSE ResolveLine(files, item, note_path, SplitLines(files[note_path].text, TRUE),
                     item.line_no - 1)

NotePathOf(source_slug) == source_slug \o << ".", "m", "d" >>

\* resolve_todo marking the item although the note is missing
resolve_todo_marking(files, item) ==
    IF NotePathOf(item.source_slug) \notin DOMAIN files
           \/ ~files[NotePathOf(item.source_slug)].exists
    THEN Resolved("", files, [item EXCEPT !.resolved = TRUE])
    ELSE ResolveIn(files, item, NotePathOf(item.source_slug))

\* resolve_todo(vault_dir, item)
resolve_todo(files, item) ==
    IF NotePathOf(item.source_slug) \notin DOMAIN files
           \/ ~files[NotePathOf(item.source_slug)].exists
    THEN Resolved("", files, item)
    ELSE ResolveIn(files, item, NotePathOf(item.source_slug))

-----------------------------------------------------------------------------
(* skills.py.  A SkillDescriptor is [path, skill_id, name, description,    *)
(* triggers, tags, body, meta], its fields the YAML values of the front    *)
(* matter; a SkillIndex is [skills].  A test of a comprehension is "T",    *)
(* "F" or the name of the exception it raises.                             *)

KeySkill == << "s", "k", "i", "l", "l" >>
KeyName == << "n", "a", "m", "e" >>
KeyDescription == << "d", "e", "s", "c", "r", "i", "p", "t", "i", "o", "n" >>
KeyTriggers == << "t", "r", "i", "g", "g", "e", "r", "s" >>

SkillDescriptor(path, skill_id, name, description, triggers, tags, body, meta) ==
    [path |-> path, skill_id |-> skill_id, name |-> name, description |-> description,
     triggers |-> triggers, tags |-> tags, body |-> body, meta |-> meta]

\* SkillDescriptor.slug
SkillSlug(skill) == PathStem(skill.path)

\* meta.get(key, default)
MetaGetOr(meta, key, default) ==
    IF DictHas(meta.items, YStr(key)) THEN DictGet(meta.items, YStr(key)) ELSE default

\* meta.get(key) or [], and the split of a str at its commas
ListField(meta, key) == SplitTags(OrElse(MetaGet(meta, key), YList(<< >>)))

\* {k: v for k, v in meta.items() if k not in {...}}
OtherMeta(meta) ==
    SelectSeq(meta.items,
              LAMBDA e : e.k \notin { YStr(KeySkill), YStr(KeyName), YStr(KeyDescription),
                                      YStr(KeyTriggers), YStr(KeyTags) })

NoSkill == SkillDescriptor(<< >>, YNull, YNull, YNull, YNull, YNull, << >>, << >>)

\* _parse_skill after parse_frontmatter: meta.get raises AttributeError
\* unless meta is a dict
SkillOf(path, meta, body) ==
    IF meta.t # "map" THEN [raised |-> "AttributeError", skill |-> NoSkill]
    ELSE [raised |-> "",
          skill |-> SkillDescriptor(path,
                                    MetaGetOr(meta, KeySkill, YStr(PathStem(path))),
                                    MetaGetOr(meta, KeyName, YStr(PathStem(path))),
                                    MetaGetOr(meta, KeyDescription, YStr(<< >>)),
                                    ListField(meta, KeyTriggers),
                                    ListField(meta, KeyTags),
                                    body,
                                    OtherMeta(meta))]

SkillFrom(path, fm) == SkillOf(path, fm.meta, fm.body)

\* _parse_skill(path): [raised, skill]
_parse_skill(path, file) ==
    IF ~file.utf8 THEN [raised |-> "UnicodeDecodeError", skill |-> NoSkill]
    ELSE SkillFrom(path, parse_frontmatter(file.text))

\* skills_dir itself, among the paths of the directory
SkillsDir == << "." >>

SkillIndex__init__ == [skills |-> EmptyDict]

\* the loop of SkillIndex.build without its try ... except: the exception
\* ends the loop
RECURSIVE LoadSkillsUntilRaise(_, _, _)
LoadUntilStep(paths, files, skills, r) ==
    IF r.raised # "" THEN [raised |-> r.raised, skills |-> skills]
    ELSE LoadSkillsUntilRaise(Tail(paths), files, DictSet(skills, SkillSlug(r.skill), r.skill))

LoadSkillsUntilRaise(paths, files, skills) ==
    IF paths = << >> THEN [raised |-> "", skills |-> skills]
    ELSE LoadUntilStep(paths, files, skills, _parse_skill(Head(paths), files[Head(paths)]))

\* the loop of SkillIndex.build, [raised, skills]: a file whose parse raises
\* is skipped
RECURSIVE LoadSkills(_, _, _)
LoadStep(paths, files, skills, r) ==
    LoadSkills(Tail(paths), files,
               IF r.raised # "" THEN skills ELSE DictSet(skills, SkillSlug(r.skill), r.skill))

LoadSkills(paths, files, skills) ==
    IF paths = << >> THEN [raised |-> "", skills |-> skills]
    ELSE LoadStep(paths, files, skills, _parse_skill(Head(paths), files[Head(paths)]))

Loaded(l) == [raised |-> l.raised, self |-> [skills |-> l.skills]]

\* SkillIndex.build(): [raised, self]
SkillIndex_build(self, files) ==
    IF ~files[SkillsDir].exists THEN [raised |-> "", self |-> [skills |-> EmptyDict]]
    ELSE Loaded(LoadSkills(SortedPaths(Glob(files)), files, EmptyDict))

\* q in value.lower()
InLower(q, value) ==
    IF value.t # "str" THEN "AttributeError"
    ELSE IF Contains(StrLower(value.s), q) THEN "T" ELSE "F"

\* t == value.lower()
EqualsLower(t, value) ==
    IF value.t # "str" THEN "AttributeError"
    ELSE IF StrLower(value.s) = t THEN "T" ELSE "F"

\* any(... for x in items): the first test that is not false decides
RECURSIVE AnyFrom(_, _, _, _)
AnyStep(r, items, i, q, exact) ==
    IF r = "F" THEN AnyFrom(items, i + 1, q, exact) ELSE r

AnyFrom(items, i, q, exact) ==
    IF i > Len(items) THEN "F"
    ELSE AnyStep(IF exact THEN EqualsLower(q, items[i]) ELSE InLower(q, items[i]),
                 items, i, q, exact)

\* any(... for x in value): a dict gives its keys, an int is not iterable
AnyOf(value, q, exact) ==
    CASE value.t = "list" -> AnyFrom(value.items, 1, q, exact)
      [] value.t = "map" ->
            AnyFrom([i \in 1..Len(value.items) |-> value.items[i].k], 1, q, exact)
      [] OTHER -> "TypeError"

\* a or b
OrTest(a, b) == IF a = "F" THEN b ELSE a

\* the condition of the comprehension of search
SearchTest(s, q) ==
    OrTest(InLower(q, s.name),
           OrTest(InLower(q, s.description),
                  OrTest(AnyOf(s.triggers, q, FALSE), AnyOf(s.tags, q, FALSE))))

\* [s for s in self.skills.values() if test]: [raised, result]
RECURSIVE SelectSkills(_, _, _, _)
SelectRest(s, r, rest) ==
    IF rest.raised # "" THEN rest
    ELSE [raised |-> "", result |-> (IF r = "T" THEN << s >> ELSE << >>) \o rest.result]

SelectStep(skills, i, q, exact, r) ==
    IF r \notin { "T", "F" } THEN [raised |-> r, result |-> << >>]
    ELSE SelectRest(skills[i].v, r, SelectSkills(skills, i + 1, q, exact))

SelectSkills(skills, i, q, exact) ==
    IF i > Len(skills) THEN [raised |-> "", result |-> << >>]
    ELSE SelectStep(skills, i, q, exact,
                    IF exact THEN AnyOf(skills[i].v.triggers, q, TRUE)
                    ELSE SearchTest(skills[i].v, q))

\* SkillIndex.search(query)
SkillIndex_search(self, query) == SelectSkills(self.skills, 1, StrLower(query), FALSE)

\* SkillIndex.by_trigger(trigger)
by_trigger(self, trigger) == SelectSkills(self.skills, 1, StrLower(trigger), TRUE)

\* resolve_shorthand after by_trigger
ShorthandFrom(self, t, exact) ==
    IF exact.raised # "" \/ exact.result # << >> THEN exact
    ELSE SkillIndex_search(self, t)

\* SkillIndex.resolve_shorthand(text)
resolve_shorthand(self, text) ==
    ShorthandFrom(self, Strip(StrLower(text)), by_trigger(self, Strip(StrLower(text))))

-----------------------------------------------------------------------------
(* The vault directory and the notes written into it.                      *)

\* b.md, s/a.md, s-/a.md, c.txt
Paths ==
    { << "b", ".", "m", "d" >>,
      << "s", "/", "a", ".", "m", "d" >>,
      << "s", "-", "/", "a", ".", "m", "d" >>,
      << "c", ".", "t", "x", "t" >> }

\* "[[b]] [[b]] [[s/b.md]] #t\n"
TextLinks ==
    << "[", "[", "b", "]", "]", " ", "[", "[", "b", "]", "]", " ", "[",
       "[", "s", "/", "b", ".", "m", "d", "]", "]", " ", "#", "t", "\n" >>

\* "---\ntitle: Ab\ntags: [t, u]\n---\n[[a]] #t x\n"
TextTitled ==
    << "-", "-", "-", "\n", "t", "i", "t", "l", "e", ":", " ", "A",
       "b", "\n", "t", "a", "g", "s", ":", " ", "[", "t", ",", " ",
       "u", "]", "\n", "-", "-", "-", "\n", "[", "[", "a", "]", "]",
       " ", "#", "t", " ", "x", "\n" >>

\* "---\ntitle: 7\n---\n[[c]] x\n"
TextNumbered ==
    << "-", "-", "-", "\n", "t", "i", "t", "l", "e", ":", " ", "7",
       "\n", "-", "-", "-", "\n", "[", "[", "c", "]", "]", " ", "x", "\n" >>

\* "---\nq\n---\n#u\n"
TextScalar ==
    << "-", "-", "-", "\n", "q", "\n", "-", "-", "-", "\n", "#", "u", "\n" >>

Texts == { TextLinks, TextTitled, TextNumbered, TextScalar }

Files == { TextFile(t) : t \in Texts } \cup { BytesFile }

\* no parser function was called yet
NoCall == [fn |-> "", raised |-> ""]

\* scan_todos() was not called yet
NoTodoIndex == [scanned |-> FALSE, items |-> << >>]

-----------------------------------------------------------------------------
(* The state machine: a vault directory edited from outside and one        *)
(* VaultIndex over it.                                                     *)
(*   fs       the files of the directory                                   *)
(*   index    the attributes of the VaultIndex object                      *)
(*   status   how the last call on the object ended: "new", "built",       *)
(*            "aborted" (build() raised)                                   *)
(*   fresh    build() calls since the last change of the directory         *)
(*   edits    changes of the directory so far                              *)
(*   before   the attributes as they were when the last build() was called *)
(*   lastGood the attributes as the last build() that returned left them   *)
(*   arg      the argument of the calls of the parser functions            *)
(*   call     the last call of a parser function and what it returned      *)
(*   todos    the TodoIndex the last scan_todos() returned                 *)

Init ==
    /\ fs = [p \in Paths |-> NoFile]
    /\ index = VaultIndex__init__
    /\ status = "new"
    /\ fresh = 0
    /\ edits = 0
    /\ before = VaultIndex__init__
    /\ lastGood = VaultIndex__init__
    /\ arg = << >>
    /\ call = NoCall
    /\ todos = NoTodoIndex

\* a file is created or overwritten from outside
WriteFile(p, f) ==
    /\ edits < MaxEdits
    /\ fs[p] # f
    /\ fs' = [fs EXCEPT ![p] = f]
    /\ edits' = edits + 1
    /\ fresh' = 0
    /\ UNCHANGED << index, status, before, lastGood, arg, call, todos >>

\* a file is deleted from outside
DeleteFile(p) ==
    /\ edits < MaxEdits
    /\ fs[p].exists
    /\ fs' = [fs EXCEPT ![p] = NoFile]
    /\ edits' = edits + 1
    /\ fresh' = 0
    /\ UNCHANGED << index, status, before, lastGood, arg, call, todos >>

\* index.build()
BuildReturns(r) ==
    /\ index' = r.self
    /\ status' = IF r.raised = "" THEN "built" ELSE "aborted"
    /\ lastGood' = IF r.raised = "" THEN r.self ELSE lastGood

Build ==
    /\ fresh < MaxRepeat
    /\ BuildReturns(build(index, fs))
    /\ before' = index
    /\ fresh' = fresh + 1
    /\ UNCHANGED << fs, edits, arg, call, todos >>

Next ==
    \/ \E p \in Paths, f \in Files : WriteFile(p, f)
    \/ \E p \in Paths : DeleteFile(p)
    \/ Build

Spec == Init /\ [][Next]_vars

-----------------------------------------------------------------------------
(* Properties.                                                             *)

\* build() was the last operation and it returned
JustBuilt == status = "built" /\ fresh >= 1

\* what a VaultIndex constructed now holds after one build()
FreshBuild == build(VaultIndex__init__, fs)

SA_md == << "s", "/", "a", ".", "m", "d" >>
SDashA_md == << "s", "-", "/", "a", ".", "m", "d" >>
C_txt == << "c", ".", "t", "x", "t" >>

\* C1: whatever files were added, deleted or modified between builds, the
\* notes, backlinks and tags held after the latest build() are exactly those
\* a freshly constructed VaultIndex holds after one build() on the same
\* directory: nothing of a deleted or changed file survives a rebuild.
C1_RebuildEqualsFreshBuild ==
    JustBuilt => FreshBuild.raised = "" /\ index = FreshBuild.self

\* a rebuild after which a note, a backlink target and a tag of the previous
\* build are gone
C1_Witness ==
    /\ JustBuilt
    /\ \E i \in 1..Len(before.notes) : ~DictHas(index.notes, before.notes[i].k)
    /\ \E i \in 1..Len(before.backlinks) : ~DictHas(index.backlinks, before.backlinks[i].k)
    /\ \E i \in 1..Len(before.tags) : ~DictHas(index.tags, before.tags[i].k)
    /\ index.notes # EmptyDict

\* C2: build() called twice in a row with no change of the directory in
\* between leaves notes, backlinks and tags after the second call exactly as
\* they were after the first (same keys, same values, same list orders).
C2_BuildIdempotent == fresh >= 2 => index = before

\* a second build() in a row over notes that have backlinks and tags
C2_Witness ==
    /\ fresh >= 2
    /\ status = "built"
    /\ Len(index.notes) >= 2
    /\ \E i \in 1..Len(index.backlinks) : Len(index.backlinks[i].v) >= 2
    /\ \E i \in 1..Len(index.tags) : Len(index.tags[i].v) >= 2


\* C3: a caller never sees a partly built index: at every point between two
\* calls, notes, backlinks and tags are together the complete result of the
\* last build() that returned (all empty before the first) or the complete
\* result of a build of the directory as it is, also after a build() that
\* an error of parse_note aborted.
C3_NoPartialBuild ==
    \/ index = lastGood
    \/ FreshBuild.raised = "" /\ index = FreshBuild.self

\* s is listed as a source of target t
Backlinked(s, t) ==
    DictHas(index.backlinks, t) /\ InSeq(s, DictGet(index.backlinks, t))

\* the links of note s as parse_note stored them
LinksOf(s) ==
    IF DictHas(index.notes, s) THEN Range(DictGet(index.notes, s).links) ELSE {}

NoteSlugs == Range(DictKeys(index.notes))

AllSlugs ==
    NoteSlugs \cup UNION { Range(index.backlinks[i].v) : i \in 1..Len(index.backlinks) }

AllTargets ==
    Range(DictKeys(index.backlinks))
    \cup UNION { { _normalise_link(l) : l \in LinksOf(s) } : s \in NoteSlugs }

\* C4: immediately after build(), s is in backlinks[t] exactly if note s
\* has a link whose normalized target is t; no backlinks list holds a slug
\* twice, also when two links of one note normalize to one target; and a
\* target that is no note is recorded under its normalized name.
C4_BacklinksMatchLinks ==
    JustBuilt =>
        /\ \A s \in AllSlugs, t \in AllTargets :
              Backlinked(s, t) <=> \E l \in LinksOf(s) : _normalise_link(l) = t
        /\ \A s \in NoteSlugs : \A l \in LinksOf(s) :
              DictHas(index.backlinks, _normalise_link(l))
        /\ \A i \in 1..Len(index.backlinks) : NoDuplicates(index.backlinks[i].v)
        /\ NoDuplicates(DictKeys(index.backlinks))

\* a note with two differently written links to one target that is no note
C4_Witness ==
    /\ JustBuilt
    /\ \E s \in NoteSlugs : \E l1, l2 \in LinksOf(s) :
          /\ l1 # l2
          /\ _normalise_link(l1) = _normalise_link(l2)
          /\ ~DictHas(index.notes, _normalise_link(l1))
          /\ DictGet(index.backlinks, _normalise_link(l1)) = << s >>

\* s is listed under tag g
Tagged(s, g) == DictHas(index.tags, g) /\ InSeq(s, DictGet(index.tags, g))

\* the tags of the index and of its notes, a tag "T" that differs from "t"
\* by letter case only, and a tag "z" of no note
AllTags ==
    Range(DictKeys(index.tags))
    \cup UNION { Range(index.notes[i].v.tags) : i \in 1..Len(index.notes) }
    \cup { YStr(<< "T" >>), YStr(<< "z" >>) }

\* C5: immediately after build(), s is in tags[g] exactly if g is one of
\* the tags of note s; no tags list holds a slug twice; notes_with_tag(g)
\* returns exactly the notes whose tags contain g itself, none for a tag
\* that is unknown.
C5_TagsMatchNotes ==
    JustBuilt =>
        /\ \A g \in AllTags, s \in NoteSlugs :
              Tagged(s, g) <=> g \in Range(DictGet(index.notes, s).tags)
        /\ \A i \in 1..Len(index.tags) :
              /\ NoDuplicates(index.tags[i].v)
              /\ Range(index.tags[i].v) \subseteq NoteSlugs
        /\ NoDuplicates(DictKeys(index.tags))
        /\ \A g \in AllTags :
              /\ NoDuplicates(notes_with_tag(index, g))
              /\ Range(notes_with_tag(index, g))
                 = { index.notes[i].v : i \in { j \in 1..Len(index.notes) :
                                                 g \in Range(index.notes[j].v.tags) } }

\* two notes under the tag "t", one of them naming it in the front matter
\* and in the body
C5_Witness ==
    /\ JustBuilt
    /\ DictHas(index.tags, YStr(<< "t" >>))
    /\ Len(notes_with_tag(index, YStr(<< "t" >>))) = 2
    /\ notes_with_tag(index, YStr(<< "T" >>)) = << >>
    /\ \E i \in 1..Len(index.notes) :
          /\ MetaGet(index.notes[i].v.frontmatter, KeyTags) # YNull
          /\ InSeq(<< "t" >>, parse_tags(index.notes[i].v.body))

\* the pairs (source, target) the backlinks mapping holds
BacklinkPairs ==
    UNION { { << index.backlinks[i].v[j], index.backlinks[i].k >> :
                j \in 1..Len(index.backlinks[i].v) } : i \in 1..Len(index.backlinks) }

\* C6: after build(), (s, t) occurs in edges() exactly if s is in
\* backlinks[t]; two notes that link to each other are each an edge to the
\* other and each in the other's backlinks.
C6_EdgesMatchBacklinks == JustBuilt => Range(edges(index)) = BacklinkPairs

\* notes a and b link to each other
C6_Witness ==
    /\ JustBuilt
    /\ InSeq(<< << "a" >>, << "b" >> >>, edges(index))
    /\ InSeq(<< << "b" >>, << "a" >> >>, edges(index))
    /\ Backlinked(<< "a" >>, << "b" >>)
    /\ Backlinked(<< "b" >>, << "a" >>)

\* how often x occurs in list l
CountIn(l, x) == Cardinality({ i \in 1..Len(l) : l[i] = x })

\* the targets of the wikilinks of a text, one per occurrence, stripped
Occurrences(body) == StripAll(WikilinkGroups(body, 1))

\* C7 as stated: edges() holds one pair per outgoing link of every note, so
\* a note whose body links one target twice yields two edges for it: the
\* edges from s to t are as many as the wikilinks of the body of s whose
\* normalized target is t.
C7_EdgePerLinkOccurrence ==
    JustBuilt =>
        \A i \in 1..Len(index.notes) : \A t \in AllTargets :
            CountIn(edges(index), << index.notes[i].k, t >>)
            = Cardinality({ j \in 1..Len(Occurrences(index.notes[i].v.body)) :
                              _normalise_link(Occurrences(index.notes[i].v.body)[j]) = t })

\* C7 amended: edges() holds one pair per entry of the links of every note,
\* that is per distinct written target of the body, and removes no
\* duplicate itself: the edges from s to t are as many as the distinct
\* written targets of the body of s whose normalized target is t.
C7_EdgePerWrittenTarget ==
    JustBuilt =>
        /\ \A i \in 1..Len(index.notes) : \A t \in AllTargets :
              CountIn(edges(index), << index.notes[i].k, t >>)
              = Cardinality({ g \in Range(Occurrences(index.notes[i].v.body)) :
                                _normalise_link(g) = t })
        /\ \A e \in Range(edges(index)) : e[1] \in NoteSlugs /\ e[2] \in AllTargets

\* a body with three wikilinks to one target, two of them written alike:
\* two edges
C7_Witness ==
    /\ JustBuilt
    /\ \E i \in 1..Len(index.notes) : \E t \in AllTargets :
          /\ CountIn(edges(index), << index.notes[i].k, t >>) = 2
          /\ Cardinality({ j \in 1..Len(Occurrences(index.notes[i].v.body)) :
                             _normalise_link(Occurrences(index.notes[i].v.body)[j]) = t }) = 3

\* the queries tried on search()
Queries == { << "x" >>, << "A", "B" >>, << "[", "[", "B" >>, << "7" >>, << "z" >> }

NoMarkdownFile == \A p \in Paths : fs[p].exists => ~EndsWith(p, DotMd)

\* C8: before the first build(), and after build() on a directory without
\* a Markdown file, notes, backlinks and tags are empty, edges() is the
\* empty list and so is search(q) for every query q.
C8_EmptyIndex ==
    (status = "new" \/ (JustBuilt /\ NoMarkdownFile)) =>
        /\ index = VaultIndex__init__
        /\ edges(index) = << >>
        /\ \A q \in Queries : search(index, q) = [raised |-> "", result |-> << >>]

\* a build() that emptied an index: the notes are deleted, a file that is
\* no Markdown file is left
C8_Witness ==
    /\ JustBuilt
    /\ NoMarkdownFile
    /\ fs[C_txt].exists
    /\ before.notes # EmptyDict

\* the base name of a Markdown file without its extension
BaseName(p) == SubSeq(Split(p, "/")[Len(Split(p, "/"))], 1, Len(Split(p, "/")[Len(Split(p, "/"))]) - 3)

MarkdownFiles == { p \in Paths : fs[p].exists /\ EndsWith(p, DotMd) }

\* the Markdown file of base name s that is last in path order, paths
\* compared component by component
Winner(s) ==
    CHOOSE p \in MarkdownFiles :
        /\ BaseName(p) = s
        /\ \A q \in MarkdownFiles \ { p } : BaseName(q) = s => PathLess(q, p)

WinnerNote(s) == parse_note(Winner(s), fs[Winner(s)]).note

\* C9: the slug of a note is the base name of its file without extension;
\* of several Markdown files with one base name, notes holds after build()
\* exactly one Note, parsed from the file that is last in the lexicographic
\* order of the paths (compared component by component), and
\* backlinks and tags hold what that note contributes, nothing of the
\* files it replaced.
C9_LastPathWins ==
    JustBuilt =>
        /\ NoDuplicates(DictKeys(index.notes))
        /\ NoteSlugs = { BaseName(p) : p \in MarkdownFiles }
        /\ \A i \in 1..Len(index.notes) :
              /\ index.notes[i].v = WinnerNote(index.notes[i].k)
              /\ slug(index.notes[i].v) = index.notes[i].k
        /\ \A s \in AllSlugs, t \in AllTargets :
              Backlinked(s, t) =>
                  s \in NoteSlugs /\ \E l \in Range(WinnerNote(s).links) : _normalise_link(l) = t
        /\ \A s \in NoteSlugs, g \in AllTags :
              Tagged(s, g) => g \in Range(WinnerNote(s).tags)

\* s/a.md and s-/a.md both exist: the one note a is that of s-/a.md, which
\* is last by components ("s" < "s-") though first as a string, and the
\* link target and the tag of s/a.md are in no mapping
C9_Witness ==
    /\ JustBuilt
    /\ fs[SA_md] = TextFile(TextLinks)
    /\ fs[SDashA_md] = TextFile(TextNumbered)
    /\ Len(index.notes) = 1
    /\ index.notes[1].v.path = SDashA_md
    /\ StrLess(SDashA_md, SA_md)
    /\ ~DictHas(index.backlinks, << "b" >>)
    /\ DictHas(index.backlinks, << "c" >>)
    /\ index.tags = EmptyDict

\* [n for n in notes if title or body contains q, letter case ignored]
RECURSIVE Matching(_, _)
Matching(ns, q) ==
    IF ns = << >> THEN << >>
    ELSE (IF Contains(StrLower(Head(ns).title.s), StrLower(q))
             \/ Contains(StrLower(Head(ns).body), StrLower(q))
          THEN << Head(ns) >> ELSE << >>)
         \o Matching(Tail(ns), q)

\* C10: search(query) returns the notes whose title or body contains the
\* query without regard to letter case, each once, in the order of the
\* notes mapping, and the empty list when none does, for every note build()
\* can produce from a front-matter block.
C10_SearchReturnsMatches ==
    JustBuilt =>
        \A q \in Queries :
            /\ search(index, q).raised = ""
            /\ search(index, q).result = Matching(DictValues(index.notes), q)

-----------------------------------------------------------------------------
(* The parser functions called on their own.  The argument is put together *)
(* from parts; a part is [s, fmtags, tags, links]: its text and what its   *)
(* writer put into it, the values of a front-matter tags field, the inline *)
(* #tags and the wikilink targets.                                         *)

\* parts of one argument; a note with a front-matter block and a body line
\* has four
MaxParts == 4

Part(s, fmtags, tags, links) == [s |-> s, fmtags |-> fmtags, tags |-> tags, links |-> links]

Plain(s) == Part(s, << >>, << >>, << >>)

\* lines of a note

\* "---\n"
PartDelimiter ==
    Plain(<< "-", "-", "-", "\n" >>)

\* "tags: [u, t, u]\n"
PartTagsList ==
    Part(<< "t", "a", "g", "s", ":", " ", "[", "u", ",", " ", "t", ",", " ",
            "u", "]", "\n" >>,
         << << "u" >>, << "t" >>, << "u" >> >>, << >>, << >>)

\* "tags: t, u\n"
PartTagsString ==
    Part(<< "t", "a", "g", "s", ":", " ", "t", ",", " ", "u", "\n" >>,
         << << "t" >>, << "u" >> >>, << >>, << >>)

\* "q\n"
PartScalar ==
    Plain(<< "q", "\n" >>)

\* "a: b: c\n"
PartMalformed ==
    Plain(<< "a", ":", " ", "b", ":", " ", "c", "\n" >>)

\* "#t [[a]] #x\n"
PartBody ==
    Part(<< "#", "t", " ", "[", "[", "a", "]", "]", " ", "#", "x", "\n" >>,
         << >>, << << "t" >>, << "x" >> >>, << << "a" >> >>)

\* "\n"
PartBlank ==
    Plain(<< "\n" >>)

NoteParts ==
    { PartDelimiter, PartTagsList, PartTagsString, PartScalar, PartMalformed,
      PartBody, PartBlank }

\* pieces of a line with wikilinks

\* "[[a]]"
PartLink ==
    Part(<< "[", "[", "a", "]", "]" >>,
         << >>, << >>, << << "a" >> >>)

\* "[[b|a]]"
PartAlias ==
    Part(<< "[", "[", "b", "|", "a", "]", "]" >>,
         << >>, << >>, << << "b" >> >>)

\* "[[a#b]]"
PartHeading ==
    Part(<< "[", "[", "a", "#", "b", "]", "]" >>,
         << >>, << >>, << << "a" >> >>)

\* "[[ b ]]"
PartPadded ==
    Part(<< "[", "[", " ", "b", " ", "]", "]" >>,
         << >>, << >>, << << "b" >> >>)

\* "[[c#a|b]]"
PartBoth ==
    Part(<< "[", "[", "c", "#", "a", "|", "b", "]", "]" >>,
         << >>, << >>, << << "c" >> >>)

\* "x "
PartWord ==
    Plain(<< "x", " " >>)

\* "]]"
PartClose ==
    Plain(<< "]", "]" >>)

LinkParts ==
    { PartLink, PartAlias, PartHeading, PartPadded, PartBoth, PartWord, PartClose }

\* pieces of a line with tags

\* "#t"
PartTag ==
    Part(<< "#", "t" >>,
         << >>, << << "t" >> >>, << >>)

\* "#"
PartHash ==
    Plain(<< "#" >>)

\* "t"
PartLetter ==
    Plain(<< "t" >>)

\* "/"
PartSlash ==
    Plain(<< "/" >>)

\* "-"
PartHyphen ==
    Plain(<< "-" >>)

\* "`"
PartBacktick ==
    Plain(<< "backtick" >>)

\* " "
PartSpace ==
    Plain(<< " " >>)

TagParts ==
    { PartTag, PartHash, PartLetter, PartSlash, PartHyphen, PartBacktick, PartSpace }

\* the arguments: up to MaxParts lines of a note, or the pieces of one line
PartsOf(parts, max) == UNION { [1..n -> parts] : n \in 0..max }

ParserInputs ==
    PartsOf(NoteParts, MaxParts) \cup PartsOf(LinkParts, MaxParts - 1)
        \cup PartsOf(TagParts, MaxParts - 1)

\* the text of a sequence of parts
RECURSIVE Concat(_)
Concat(parts) ==
    IF parts = << >> THEN << >> ELSE Head(parts).s \o Concat(Tail(parts))

\* the file parse_note is called on
NotePath == << "a", ".", "m", "d" >>

Called(fn, raised, result) == [fn |-> fn, raised |-> raised, result |-> result]

ParserInit ==
    /\ arg \in ParserInputs
    /\ call = NoCall
    /\ fs = [p \in Paths |-> NoFile]
    /\ index = VaultIndex__init__
    /\ status = "new"
    /\ fresh = 0
    /\ edits = 0
    /\ before = VaultIndex__init__
    /\ lastGood = VaultIndex__init__
    /\ todos = NoTodoIndex

ParserUnchanged == UNCHANGED << fs, index, status, fresh, edits, before, lastGood, arg, todos >>

\* parse_frontmatter(content): no statement of it raises, safe_load being
\* inside the try
CallParseFrontmatter ==
    /\ call' = Called("parse_frontmatter", "", parse_frontmatter(Concat(arg)))
    /\ ParserUnchanged

CallParseWikilinks ==
    /\ call' = Called("parse_wikilinks", "", parse_wikilinks(Concat(arg)))
    /\ ParserUnchanged

CallParseTags ==
    /\ call' = Called("parse_tags", "", parse_tags(Concat(arg)))
    /\ ParserUnchanged

NoteCalled(r) == Called("parse_note", r.raised, r.note)

CallParseNote ==
    /\ call' = NoteCalled(parse_note(NotePath, TextFile(Concat(arg))))
    /\ ParserUnchanged

ParserNext ==
    \/ CallParseFrontmatter
    \/ CallParseWikilinks
    \/ CallParseTags
    \/ CallParseNote

ParserSpec == ParserInit /\ [][ParserNext]_vars

-----------------------------------------------------------------------------
(* Properties of the parser functions.                                     *)

CalledFn(fn) == call.fn = fn /\ call.raised = ""

\* the argument is made of lines of a note
NoteLines == \A i \in 1..Len(arg) : arg[i] \in NoteParts

\* the positions of the delimiter lines that can close a block opened by
\* the first line
Closing == { k \in 2..Len(arg) : arg[k] = PartDelimiter }

\* the argument begins with a delimiter line, a metadata block and a closing
\* delimiter line
HasBlock == arg # << >> /\ arg[1] = PartDelimiter /\ Closing # {}

FirstClosing == CHOOSE k \in Closing : \A j \in Closing : k <= j

\* the lines of the metadata block and the lines after the closing delimiter
MetaParts == IF HasBlock THEN SubSeq(arg, 2, FirstClosing - 1) ELSE << >>
BodyParts == IF HasBlock THEN SubSeq(arg, FirstClosing + 1, Len(arg)) ELSE arg

\* C11: parse_frontmatter never raises and always returns a mapping as
\* metadata, the empty mapping when the block is malformed, a bare scalar or
\* a list, so that parse_note never fails because of the content of a
\* front-matter block.
C11_MetadataIsMapping ==
    /\ call.fn = "parse_frontmatter" => call.raised = "" /\ call.result.meta.t = "map"
    /\ call.fn = "parse_note" => call.raised = ""

\* C12: when the content begins with a delimiter line, a metadata block of
\* zero or more lines and a closing delimiter line, the body is exactly the
\* text after the closing delimiter line; otherwise the result is
\* ({}, content).
C12_BodyAfterBlock ==
    CalledFn("parse_frontmatter") =>
        IF HasBlock THEN call.result.body = Concat(BodyParts)
        ELSE call.result = [meta |-> YMap(EmptyDict), body |-> Concat(arg)]

\* the wikilink targets the parts of the argument were written with
RECURSIVE LinksOfParts(_)
LinksOfParts(parts) ==
    IF parts = << >> THEN << >> ELSE Head(parts).links \o LinksOfParts(Tail(parts))

\* C13: parse_wikilinks returns the targets of all [[Target]],
\* [[Target|Alias]] and [[Target#Heading]] occurrences, alias and heading
\* discarded, each once and in order of first occurrence, and the empty
\* list for a text without wikilinks.
C13_WikilinkTargets ==
    CalledFn("parse_wikilinks") => call.result = UniqueInOrder(LinksOfParts(arg), {})

\* [[b|a]], [[ b ]] and [[a#b]] give b and a
C13_Witness ==
    /\ CalledFn("parse_wikilinks")
    /\ arg = << PartAlias, PartPadded, PartHeading >>
    /\ call.result = << << "b" >>, << "a" >> >>

\* the positions of the "#" that start a tag in text: not preceded by a
\* backtick, a word character, a slash or a "#", and followed by a tag
\* character
TagStarts(s) ==
    { i \in 1..(Len(s) - 1) :
        /\ s[i] = "#"
        /\ IsTagChar(s[i + 1])
        /\ i > 1 => ~(IsWord(s[i - 1]) \/ s[i - 1] \in { "backtick", "/", "#" }) }

\* the tag characters that follow position i
TokenAt(s, i) ==
    SubSeq(s, i + 1,
           CHOOSE e \in (i + 1)..Len(s) :
               /\ \A j \in (i + 1)..e : IsTagChar(s[j])
               /\ e < Len(s) => ~IsTagChar(s[e + 1]))

\* the tokens at the positions of starts, by increasing position
RECURSIVE TokensFrom(_, _)
TokensFrom(s, starts) ==
    IF starts = {} THEN << >>
    ELSE LET i == CHOOSE k \in starts : \A j \in starts : k <= j
         IN << TokenAt(s, i) >> \o TokensFrom(s, starts \ { i })

\* C14: parse_tags returns the #tag tokens (word characters, digits,
\* hyphens, slashes) each once and in order of first occurrence, and none
\* whose "#" is immediately preceded by a backtick, a word character, a
\* digit, another "#" or a slash.
C14_TagTokens ==
    CalledFn("parse_tags") =>
        call.result = UniqueInOrder(TokensFrom(Concat(arg), TagStarts(Concat(arg))), {})

\* "-", a backtick, "#t": the tag after the backtick is not returned
C14_Witness ==
    /\ CalledFn("parse_tags")
    /\ arg = << PartHyphen, PartBacktick, PartTag >>
    /\ call.result = << >>

\* the metadata block is a mapping of tags fields (comments and blank lines
\* between them)
MetaIsMapping ==
    \A i \in 1..Len(MetaParts) :
        MetaParts[i] \in { PartTagsList, PartTagsString, PartBody, PartBlank }

\* the values of the tags field of the metadata block: those of its last
\* tags line
RECURSIVE LastFmTags(_)
LastFmTags(parts) ==
    IF parts = << >> THEN << >>
    ELSE IF parts[Len(parts)].fmtags # << >> THEN parts[Len(parts)].fmtags
    ELSE LastFmTags(SubSeq(parts, 1, Len(parts) - 1))

RECURSIVE TagsOfParts(_)
TagsOfParts(parts) ==
    IF parts = << >> THEN << >> ELSE Head(parts).tags \o TagsOfParts(Tail(parts))

\* a metadata block of no line, which parse_frontmatter does not take for a
\* block (C12)
EmptyBlock == Len(arg) >= 2 /\ arg[1] = PartDelimiter /\ arg[2] = PartDelimiter

Strings(values) == [i \in 1..Len(values) |-> values[i].s]

\* C15: the tags and the links of a Note produced by parse_note hold no
\* duplicates; tags is the front-matter tags (a list or a comma-separated
\* string) in their order followed by the inline tags of the body not
\* already present; links and inline tags come from the body only.
C15_NoteTagsAndLinks ==
    CalledFn("parse_note") =>
        /\ NoDuplicates(call.result.tags)
        /\ NoDuplicates(call.result.links)
        /\ NoteLines /\ ~EmptyBlock =>
            /\ Strings(call.result.tags) =
                   UniqueInOrder((IF MetaIsMapping THEN LastFmTags(MetaParts) ELSE << >>)
                                     \o TagsOfParts(BodyParts), {})
            /\ call.result.links = UniqueInOrder(LinksOfParts(BodyParts), {})

\* a block with tags: [u, t, u] and a commented line, and the body
\* "#t [[a]] #x": the tags are u, t, x and the one link is a
C15_Witness ==
    /\ CalledFn("parse_note")
    /\ arg = << PartDelimiter, PartTagsList, PartDelimiter, PartBody >>
    /\ Strings(call.result.tags) = << << "u" >>, << "t" >>, << "x" >> >>
    /\ call.result.links = << << "a" >> >>

-----------------------------------------------------------------------------
(* scan_todos over a vault of two notes: b.md, whose body is put together  *)
(* from up to MaxLines lines, and s/a.md, absent or a note with a          *)
(* front-matter block.                                                     *)

\* lines of the body of b.md; a fenced block around two lines has four
MaxLines == 4

\* "```"
LineFence ==
    << "backtick", "backtick", "backtick" >>

\* " ~~~"
LineTilde ==
    << " ", "~", "~", "~" >>

\* "<!-- x"
LineComment ==
    << "<", "!", "-", "-", " ", "x" >>

\* "- [ ] TK: a"
LineTask ==
    << "-", " ", "[", " ", "]", " ", "T", "K", ":", " ", "a" >>

\* "tk:  b"
LineColon ==
    << "t", "k", ":", " ", " ", "b" >>

\* "c TK"
LineBare ==
    << "c", " ", "T", "K" >>

\* "x"
LinePlain ==
    << "x" >>

ScanLineKinds ==
    { LineFence, LineTilde, LineComment, LineTask, LineColon, LineBare, LinePlain }

\* "\n".join(lines) + "\n"
RECURSIVE Lines(_)
Lines(lines) ==
    IF lines = << >> THEN << >> ELSE Head(lines) \o << "\n" >> \o Lines(Tail(lines))

ScanBodies == { Lines(ls) : ls \in UNION { [1..n -> ScanLineKinds] : n \in 0..MaxLines } }

\* "---\ntags: t\n---\n"
TodoHeader ==
    << "-", "-", "-", "\n", "t", "a", "g", "s", ":", " ", "t", "\n", "-",
       "-", "-", "\n" >>

\* the note of s/a.md: the block, then the lines "x" and "tk:  b"
TextTodo == TodoHeader \o Lines(<< LinePlain, LineColon >>)

B_md == << "b", ".", "m", "d" >>

ScanInit ==
    /\ \E body \in ScanBodies, other \in { NoFile, TextFile(TextTodo) } :
           fs = [p \in Paths |-> IF p = B_md THEN TextFile(body)
                                 ELSE IF p = SA_md THEN other ELSE NoFile]
    /\ index = VaultIndex__init__
    /\ status = "new"
    /\ fresh = 0
    /\ edits = 0
    /\ before = VaultIndex__init__
    /\ lastGood = VaultIndex__init__
    /\ arg = << >>
    /\ call = NoCall
    /\ todos = NoTodoIndex

\* index.build(), once
ScanBuild ==
    /\ status = "new"
    /\ BuildReturns(build(index, fs))
    /\ before' = index
    /\ fresh' = fresh + 1
    /\ UNCHANGED << fs, edits, arg, call, todos >>

\* todos = scan_todos(index)
ScanTodos ==
    /\ status = "built"
    /\ todos' = scan_todos(index)
    /\ UNCHANGED << fs, index, status, fresh, edits, before, lastGood, arg, call >>

ScanNext == ScanBuild \/ ScanTodos

ScanSpec == ScanInit /\ [][ScanNext]_vars

-----------------------------------------------------------------------------
(* Properties of scan_todos.                                               *)

\* the lines of the body of the note of a slug, as index holds it
BodyLinesOf(source_slug) == Split(DictGet(index.notes, source_slug).body, "\n")

\* a code fence line: three backticks or three tildes after optional blanks
IsFence(line) ==
    LET j == SkipWhile(line, 1, WhiteSpace)
    IN \/ StartsAt(line, j, << "backtick", "backtick", "backtick" >>)
       \/ StartsAt(line, j, << "~", "~", "~" >>)

FencesBefore(lines, i) == { k \in 1..(i - 1) : IsFence(lines[k]) }

\* line i lies between an opening fence line and the fence line closing it
InsideFence(lines, i) ==
    \E o \in 1..(i - 1), c \in (i + 1)..Len(lines) :
        /\ IsFence(lines[o]) /\ IsFence(lines[c])
        /\ Cardinality(FencesBefore(lines, o)) % 2 = 0
        /\ \A k \in (o + 1)..(c - 1) : ~IsFence(lines[k])

\* C16: scan_todos produces no TodoItem for a line located between an
\* opening code fence line and its closing fence line, whatever other lines
\* (HTML comment openers included) the fenced block contains.
C16_NoItemInsideFence ==
    todos.scanned =>
        \A n \in 1..Len(todos.items) :
            ~InsideFence(BodyLinesOf(todos.items[n].source_slug), todos.items[n].line_no)

\* a marker line: a fence line or an HTML comment opener
IsMarker(line) ==
    IsFence(line) \/ StartsAt(line, SkipWhile(line, 1, WhiteSpace), << "<", "!", "-", "-" >>)

\* a line that is not skipped: no marker line, and an even number of marker
\* lines before it
NotSkipped(lines, i) ==
    /\ ~IsMarker(lines[i])
    /\ Cardinality({ k \in 1..(i - 1) : IsMarker(lines[k]) }) % 2 = 0

\* the lines that hold TK as a whole word, and the description each was
\* written for: that of the first pattern that matches it
MarkedLines == { LineTask, LineColon, LineBare }

Described(line) ==
    CASE line = LineTask -> << "a" >>
      [] line = LineColon -> << "b" >>
      [] line = LineBare -> << "c" >>

\* the items expected for the lines from i on
RECURSIVE ExpectedFrom(_, _, _)
ExpectedFrom(source_slug, lines, i) ==
    IF i > Len(lines) THEN << >>
    ELSE (IF lines[i] \in MarkedLines /\ NotSkipped(lines, i)
          THEN << [source_slug |-> source_slug, line_no |-> i,
                   description |-> Described(lines[i]), raw_line |-> lines[i],
                   resolved |-> FALSE] >>
          ELSE << >>)
         \o ExpectedFrom(source_slug, lines, i + 1)

RECURSIVE ExpectedItems(_)
ExpectedItems(n) ==
    IF n > Len(index.notes) THEN << >>
    ELSE ExpectedFrom(index.notes[n].k, BodyLinesOf(index.notes[n].k), 1)
         \o ExpectedItems(n + 1)

\* C17: the three patterns are tried in the order task item, colon form,
\* bare form and the first match is taken: a line yields at most one item,
\* a line that is not skipped and holds TK as a whole word yields exactly
\* one, every item has resolved = false, and the items are in note
\* iteration order and then in ascending line number.
C17_OneItemPerMarkedLine ==
    todos.scanned => todos.items = ExpectedItems(1)

\* the body of b.md is a task item, a colon form and a bare form: three
\* items with the descriptions a, b, c, then the item of the note a
C17_Witness ==
    /\ todos.scanned
    /\ fs[B_md] = TextFile(Lines(<< LineTask, LineColon, LineBare >>))
    /\ Len(todos.items) = 4
    /\ \A n \in 1..3 : todos.items[n].line_no = n /\ ~todos.items[n].resolved
    /\ todos.items[1].description = << "a" >>
    /\ todos.items[3].description = << "c" >>
    /\ todos.items[4].source_slug = << "a" >>

\* the body of a note as its file was written: the text after the
\* front-matter block
WrittenBody(source_slug) ==
    IF source_slug = << "b" >> THEN fs[B_md].text
    ELSE Drop(fs[SA_md].text, Len(TodoHeader) + 1)

\* C18: the line_no of every TodoItem is the 1-based position of its
\* raw_line within the body of the note, the front matter stripped: the
\* body line at position line_no equals raw_line.
C18_LineNumberInBody ==
    todos.scanned =>
        \A n \in 1..Len(todos.items) :
            LET lines == Split(WrittenBody(todos.items[n].source_slug), "\n")
            IN /\ todos.items[n].line_no \in 1..Len(lines)
               /\ lines[todos.items[n].line_no] = todos.items[n].raw_line

\* the item of s/a.md has line 2, its file line being 5, and an item of
\* b.md has line 1
C18_Witness ==
    /\ todos.scanned
    /\ \E n \in 1..Len(todos.items) :
           todos.items[n].source_slug = << "a" >> /\ todos.items[n].line_no = 2
    /\ \E n \in 1..Len(todos.items) :
           todos.items[n].source_slug = << "b" >> /\ todos.items[n].line_no = 1

\* the marker lines of a body before its line i
MarkersBefore(lines, i) == { k \in 1..(i - 1) : IsMarker(lines[k]) }

\* the lines of the notes of the index for which scan_todos made an item
ItemLines == { << todos.items[n].source_slug, todos.items[n].line_no >> :
                 n \in 1..Len(todos.items) }

\* C25: in scan_todos the in_code_block flag starts false for every note
\* and is flipped by each line that begins (after optional whitespace) with
\* three backticks, three tildes or an HTML comment opener, without regard
\* to fence type: a body line is classified if and only if it is not such a
\* marker line and the number of marker lines before it in the same body is
\* even; the flag of one note never carries over to the next note.  A line
\* that holds TK as a whole word has an item exactly when it is classified.
C25_FlagParity ==
    todos.scanned =>
        \A n \in 1..Len(index.notes) :
            LET lines == BodyLinesOf(index.notes[n].k)
            IN \A i \in 1..Len(lines) :
                   << index.notes[n].k, i >> \in ItemLines
                       <=> /\ lines[i] \in MarkedLines
                           /\ ~IsMarker(lines[i])
                           /\ Cardinality(MarkersBefore(lines, i)) % 2 = 0

\* b.md: a comment opener that sets the flag, a tilde fence that clears
\* it, a TK line that is classified, a backtick fence that sets the flag
\* for the rest of the note; the note a, scanned after it, has its item
C25_Witness ==
    /\ todos.scanned
    /\ fs[B_md] = TextFile(Lines(<< LineComment, LineTilde, LineColon, LineFence >>))
    /\ fs[SA_md].exists
    /\ ItemLines = { << << "b" >>, 3 >>, << << "a" >>, 2 >> }

-----------------------------------------------------------------------------
(* Quick capture and resolution on a vault: the files todos.md, b.md and   *)
(* s/a.md, one VaultIndex, the TodoIndex of the last scan.                 *)
(*   arg    the descriptions append_todo was called with, in call order    *)
(*   call   the last call of append_todo or resolve_todo: the directory as *)
(*          it was when the call was made, the item given to the call and  *)
(*          the item as the call left it                                   *)
(*   edits  the calls of resolve_todo so far                               *)

\* calls of append_todo and resolve_todo in one behaviour
MaxCalls == 2

TodoPaths == { TodosPath, B_md, SA_md }

\* "- [ ] [ ] c"
LineBoxes ==
    << "-", " ", "[", " ", "]", " ", "[", " ", "]", " ", "c" >>

\* a note of a task item, a colon form and a line of two checkboxes
TextTasks == Lines(<< LineTask, LineColon, LineBoxes >>)

\* a note with a front-matter block of three lines and a task item
TextFrontTask == TodoHeader \o Lines(<< LineTask >>)

\* a todos.md written by hand, its last line not ended
TextByHand == << "x" >>

\* the calls of append_todo: a description, and the slug of the note the
\* capture was made in or ""
Captures ==
    { << << "a" >>, << >> >>,
      << << "c" >>, << "b" >> >>,
      << << "[", "[", "k", "]", "]" >>, << >> >>,
      << << "[", "[", "k" >>, << "b" >> >> }

\* date.today().isoformat()
Today ==
    << "2", "0", "2", "6", "-", "1", "1", "-", "0", "1" >>

\* the items a caller makes up: a note that exists or not, a line inside or
\* outside the file
LineNumbers == { 0, 1, 3, 4 }
GivenItems ==
    { TodoItem(<< "b" >>, n, << >>, << >>) : n \in LineNumbers }
        \cup { TodoItem(<< "g" >>, 1, << >>, << >>) }

TodoCalled(fn, raised, given, item, files) ==
    [fn |-> fn, raised |-> raised, given |-> given, item |-> item, files |-> files]

NoItem == TodoItem(<< >>, 0, << >>, << >>)

\* the vaults a behaviour starts from: b.md, todos.md and s/a.md
TodoVaults ==
    { << NoFile, NoFile, NoFile >>,
      << NoFile, TextFile(TextByHand), NoFile >>,
      << NoFile, NoFile, TextFile(Lines(<< LineTask >>)) >>,
      << TextFile(TextTasks), NoFile, NoFile >>,
      << TextFile(TextTasks), TextFile(TextByHand), NoFile >>,
      << TextFile(TextFrontTask), NoFile, NoFile >> }

TodoInit ==
    /\ \E vault \in TodoVaults :
           fs = [p \in TodoPaths |-> IF p = B_md THEN vault[1]
                                     ELSE IF p = TodosPath THEN vault[2] ELSE vault[3]]
    /\ index = VaultIndex__init__
    /\ status = "new"
    /\ fresh = 0
    /\ edits = 0
    /\ before = VaultIndex__init__
    /\ lastGood = VaultIndex__init__
    /\ arg = << >>
    /\ call = NoCall
    /\ todos = NoTodoIndex

\* append_todo(vault_dir, description, source_slug)
AppendTodo(description, source_slug) ==
    /\ Len(arg) + edits < MaxCalls
    /\ fs' = append_todo(fs, description, source_slug, Today)
    /\ call' = TodoCalled("append_todo", "", NoItem, NoItem, fs)
    /\ arg' = Append(arg, description)
    /\ fresh' = 0
    /\ UNCHANGED << index, status, edits, before, lastGood, todos >>

\* index.build(), after a change of the directory
TodoBuild ==
    /\ fresh = 0
    /\ BuildReturns(build(index, fs))
    /\ before' = index
    /\ fresh' = fresh + 1
    /\ UNCHANGED << fs, edits, arg, call, todos >>

\* todos = scan_todos(index)
TodoScan ==
    /\ status = "built"
    /\ todos' = scan_todos(index)
    /\ UNCHANGED << fs, index, status, fresh, edits, before, lastGood, arg, call >>

ResolveReturns(item, r) ==
    /\ fs' = r.files
    /\ call' = TodoCalled("resolve_todo", r.raised, item, r.item, fs)
    /\ edits' = edits + 1
    /\ fresh' = IF r.files = fs THEN fresh ELSE 0

\* resolve_todo(vault_dir, todos.items[n])
ResolveScanned(n) ==
    /\ Len(arg) + edits < MaxCalls
    /\ ResolveReturns(todos.items[n], resolve_todo(fs, todos.items[n]))
    /\ todos' = [todos EXCEPT !.items[n] = resolve_todo(fs, todos.items[n]).item]
    /\ UNCHANGED << index, status, before, lastGood, arg >>

\* resolve_todo(vault_dir, item) for an item the caller made up
ResolveGiven(item) ==
    /\ Len(arg) + edits < MaxCalls
    /\ ResolveReturns(item, resolve_todo(fs, item))
    /\ UNCHANGED << index, status, before, lastGood, arg, todos >>

TodoNext ==
    \/ \E c \in Captures : AppendTodo(c[1], c[2])
    \/ TodoBuild
    \/ TodoScan
    \/ \E n \in 1..Len(todos.items) : ResolveScanned(n)
    \/ \E item \in GivenItems : ResolveGiven(item)

TodoSpec == TodoInit /\ [][TodoNext]_vars

-----------------------------------------------------------------------------
(* Properties of append_todo and resolve_todo.                             *)

IsPrefix(s, t) == Len(s) <= Len(t) /\ SubSeq(t, 1, Len(s)) = s

\* the strings of l occur in text from position i on, one after the other
RECURSIVE InOrder(_, _, _)
InOrder(s, i, l) ==
    IF l = << >> THEN TRUE
    ELSE LET at == { j \in i..(Len(s) + 1) : StartsAt(s, j, Head(l)) }
         IN at # {} /\ InOrder(s, (CHOOSE j \in at : \A k \in at : j <= k) + Len(Head(l)),
                               Tail(l))

\* "Todos"
TitleTodos == << "T", "o", "d", "o", "s" >>

\* C19: append_todo strictly appends: the content of todos.md before each
\* call is a prefix of its content after the call, the file is created
\* with a front-matter header and title when it does not exist, and the
\* file contains every description passed, in call order.
C19_AppendOnly ==
    call.fn = "append_todo" =>
        /\ fs[TodosPath].exists
        /\ IsPrefix(call.files[TodosPath].text, fs[TodosPath].text)
        /\ fs[TodosPath].text # call.files[TodosPath].text
        /\ ~call.files[TodosPath].exists =>
               MetaGet(parse_frontmatter(fs[TodosPath].text).meta, KeyTitle) = YStr(TitleTodos)
        /\ InOrder(fs[TodosPath].text, 1, arg)
        /\ \A p \in TodoPaths \ { TodosPath } : fs[p] = call.files[p]

\* two calls on a vault without todos.md: the file was there at the second
\* call and holds both descriptions
C19_Witness ==
    /\ call.fn = "append_todo"
    /\ arg = << << "c" >>, << "a" >> >>
    /\ call.files[TodosPath].exists
    /\ StartsAt(fs[TodosPath].text, 1, TodosHeader)

\* the lines of a file, without their line feeds
FileLines(s) ==
    IF s # << >> /\ s[Len(s)] = "\n" THEN Split(SubSeq(s, 1, Len(s) - 1), "\n")
    ELSE IF s = << >> THEN << >> ELSE Split(s, "\n")

\* a line with its first unchecked checkbox checked
Unchecked == << "[", " ", "]" >>
CheckedFirst(line) ==
    LET at == { i \in 1..Len(line) : StartsAt(line, i, Unchecked) }
        i == CHOOSE k \in at : \A j \in at : k <= j
    IN IF at = {} THEN line
       ELSE SubSeq(line, 1, i - 1) \o << "[", "x", "]" >> \o Drop(line, i + 3)

\* the file resolve_todo was called for
CalledPath == NotePathOf(call.item.source_slug)

\* C20: resolve_todo on an existing source note with line_no within the
\* file replaces the first unchecked checkbox on file line line_no by a
\* checked one, leaves the text of every other line of that file and every
\* other file unchanged, and sets item.resolved to true.
C20_ResolveChecksLine ==
    (/\ call.fn = "resolve_todo"
     /\ CalledPath \in TodoPaths
     /\ call.files[CalledPath].exists
     /\ call.item.line_no \in 1..Len(FileLines(call.files[CalledPath].text))) =>
        /\ call.raised = ""
        /\ call.item.resolved
        /\ FileLines(fs[CalledPath].text) =
               [FileLines(call.files[CalledPath].text) EXCEPT
                   ![call.item.line_no] = CheckedFirst(@)]
        /\ \A p \in TodoPaths \ { CalledPath } : fs[p] = call.files[p]

\* line 3 of b.md, "- [ ] [ ] c", became "- [x] [ ] c"
C20_Witness ==
    /\ call.fn = "resolve_todo"
    /\ call.item.source_slug = << "b" >>
    /\ call.item.line_no = 3
    /\ call.item.resolved
    /\ call.files[B_md] = TextFile(TextTasks)
    /\ FileLines(fs[B_md].text)[3] = << "-", " ", "[", "x", "]", " ", "[", " ", "]", " ", "c" >>
    /\ FileLines(fs[B_md].text)[1] = LineTask

\* C21: resolve_todo for an item whose source note file does not exist is
\* a silent no-op: it raises nothing, creates no file, modifies no file and
\* leaves item.resolved unchanged.
C21_MissingNoteNoOp ==
    (/\ call.fn = "resolve_todo"
     /\ (CalledPath \notin TodoPaths \/ ~call.files[CalledPath].exists)) =>
        /\ call.raised = ""
        /\ fs = call.files
        /\ call.item = call.given

\* the call for the note g, of which the vault has no file, after an
\* append_todo that created todos.md
C21_Witness ==
    /\ call.fn = "resolve_todo"
    /\ call.given.source_slug = << "g" >>
    /\ ~call.item.resolved
    /\ fs[TodosPath].exists
    /\ ~fs[B_md].exists

\* the index was built and scanned after the last change of the directory
ScannedNow == status = "built" /\ fresh >= 1 /\ todos = scan_todos(index)

\* the vault had no file when the first call was made, and append_todo is
\* all that was called
OnlyAppended ==
    /\ edits = 0
    /\ ~fs[B_md].exists
    /\ ~fs[SA_md].exists
    /\ IF arg = << >> THEN ~fs[TodosPath].exists
       ELSE StartsAt(fs[TodosPath].text, 1, TodosHeader)

\* C26: after any number k of append_todo calls on a vault that initially
\* has no todos.md and no other note, followed by build() and scan_todos(),
\* the TodoIndex contains exactly k items with source_slug 'todos', one per
\* appended description and in call order, each with a description that
\* contains the appended description.
C26_OneItemPerCapture ==
    (OnlyAppended /\ ScannedNow) =>
        /\ Len(todos.items) = Len(arg)
        /\ \A n \in 1..Len(todos.items) :
               /\ todos.items[n].source_slug = << "t", "o", "d", "o", "s" >>
               /\ n <= Len(arg) => Contains(todos.items[n].description, arg[n])

\* "- [ ] TK:"
TaskPrefix ==
    << "-", " ", "[", " ", "]", " ", "T", "K", ":" >>

\* the last call was resolve_todo for a line of an existing note
ResolveCalled ==
    /\ call.fn = "resolve_todo"
    /\ CalledPath \in TodoPaths
    /\ call.files[CalledPath].exists
    /\ call.given.line_no \in 1..Len(FileLines(call.files[CalledPath].text))

\* the line the call was made for, before the call and now
LineBefore == FileLines(call.files[CalledPath].text)[call.given.line_no]
LineNow == FileLines(fs[CalledPath].text)[call.given.line_no]

\* todos.pending
Pending == SelectSeq(todos.items, LAMBDA item : ~item.resolved)

\* C27: resolution persists across rescans: after resolve_todo has
\* rewritten a task-item line '- [ ] TK: ...' to its checked form, a
\* subsequent build() followed by scan_todos() does not report that line as
\* a pending (unresolved) todo.
C27_ResolutionPersists ==
    (ResolveCalled /\ ScannedNow /\ IsPrefix(TaskPrefix, LineBefore) /\ LineNow # LineBefore) =>
        \A n \in 1..Len(Pending) :
            ~(/\ Pending[n].source_slug = call.given.source_slug
              /\ Pending[n].raw_line = LineNow)

\* the file of the model that holds the note of a slug
FileOfSlug(source_slug) ==
    IF source_slug = << "a" >> THEN SA_md ELSE NotePathOf(source_slug)

\* the lines of a file that differ from what they were when the last call
\* was made
ChangedLines(p) ==
    { k \in 1..Len(FileLines(fs[p].text)) :
        FileLines(fs[p].text)[k] # FileLines(call.files[p].text)[k] }

\* C28: for every task-item TodoItem that scan_todos produces from an index
\* built over vault_dir, resolve_todo(vault_dir, item) checks the checkbox
\* on the very file line that produced the item (the line whose text is
\* item.raw_line) and on no other line, for notes with or without a
\* front-matter block and for notes located in subdirectories of the vault.
C28_ResolveScannedLine ==
    (call.fn = "resolve_todo" /\ IsPrefix(TaskPrefix, call.given.raw_line)) =>
        /\ \A p \in TodoPaths \ { FileOfSlug(call.given.source_slug) } : fs[p] = call.files[p]
        /\ \E k \in 1..Len(FileLines(fs[FileOfSlug(call.given.source_slug)].text)) :
               /\ ChangedLines(FileOfSlug(call.given.source_slug)) = { k }
               /\ FileLines(call.files[FileOfSlug(call.given.source_slug)].text)[k]
                      = call.given.raw_line
               /\ FileLines(fs[FileOfSlug(call.given.source_slug)].text)[k]
                      = CheckedFirst(call.given.raw_line)

\* C29: resolve_todo sets item.resolved to true only when it actually
\* changed an unchecked checkbox to a checked one in the source file: when
\* line_no is outside the file's lines, or the line at line_no contains no
\* unchecked checkbox (a colon-form or bare-form TK line), the file content
\* is unchanged and item.resolved stays false.
C29_ResolvedOnlyWhenChecked ==
    (/\ call.fn = "resolve_todo"
     /\ ~call.given.resolved
     /\ CalledPath \in TodoPaths
     /\ call.files[CalledPath].exists) =>
        /\ call.item.resolved => fs # call.files
        /\ (\/ call.given.line_no \notin 1..Len(FileLines(call.files[CalledPath].text))
            \/ CheckedFirst(LineBefore) = LineBefore) =>
               fs = call.files /\ ~call.item.resolved

\* the last call was append_todo and build() has run since
AppendedAndBuilt == call.fn = "append_todo" /\ status = "built" /\ fresh >= 1

\* the source_slug passed with the last description
CaptureSource == (CHOOSE c \in Captures : c[1] = arg[Len(arg)])[2]

TodosSlug == PathStem(TodosPath)

\* the links of the todos note as parsed from the directory files
TodosLinks(files) ==
    IF files[TodosPath].exists THEN parse_note(TodosPath, files[TodosPath]).note.links
    ELSE << >>

SourceLinked ==
    /\ DictHas(index.backlinks, CaptureSource)
    /\ TodosSlug \in Range(DictGet(index.backlinks, CaptureSource))
    /\ << TodosSlug, CaptureSource >> \in Range(edges(index))

OpensLink(description) ==
    \E i \in 1..Len(description) - 1 : description[i] = "[" /\ description[i + 1] = "["

-----------------------------------------------------------------------------
(* A skills directory edited from outside and one SkillIndex over it.      *)
(*   fs      the files of the directory; fs[SkillsDir] is the directory    *)
(*   index   the attributes of the SkillIndex object                       *)
(*   status  "new", "built" or "aborted" (build() raised)                  *)
(*   fresh   build() calls since the last change of the directory          *)
(*   edits   changes of the directory so far                               *)
(*   arg     the argument of the last query on the index as it is          *)
(*   call    that query and what it returned                               *)

\* changes of the skills directory in one behaviour
MaxChanges == 2

SkillFiles ==
    { << "a", ".", "m", "d" >>,
      << "b", ".", "m", "d" >>,
      << "s", "/", "a", ".", "m", "d" >> }

SkillPaths == SkillFiles \cup { SkillsDir }

\* "---\nname: Ab\ntriggers: [t, u, t]\n---\nx\n"
TextSkillList ==
    << "-", "-", "-", "\n", "n", "a", "m", "e", ":", " ", "A", "b", "\n",
       "t", "r", "i", "g", "g", "e", "r", "s", ":", " ", "[", "t",
       ",", " ", "u", ",", " ", "t", "]", "\n", "-", "-", "-", "\n",
       "x", "\n" >>

\* "---\ntriggers: T, u, T\ntags: k\n---\n"
TextSkillString ==
    << "-", "-", "-", "\n", "t", "r", "i", "g", "g", "e", "r", "s", ":",
       " ", "T", ",", " ", "u", ",", " ", "T", "\n", "t", "a", "g",
       "s", ":", " ", "k", "\n", "-", "-", "-", "\n" >>

\* "---\nname: 7\n---\n"
TextSkillNumber ==
    << "-", "-", "-", "\n", "n", "a", "m", "e", ":", " ", "7", "\n", "-",
       "-", "-", "\n" >>

SkillTexts == { TextSkillList, TextSkillString, TextSkillNumber, TextScalar }

SkillContents == { TextFile(t) : t \in SkillTexts } \cup { BytesFile }

\* the shorthands typed: a trigger, a trigger in the other case with a
\* blank before it, a part of a name
Shorthands == { << "t" >>, << " ", "T" >>, << "b" >> }

SkillInit ==
    /\ fs = [p \in SkillPaths |-> NoFile]
    /\ index = SkillIndex__init__
    /\ status = "new"
    /\ fresh = 0
    /\ edits = 0
    /\ before = SkillIndex__init__
    /\ lastGood = SkillIndex__init__
    /\ arg = << >>
    /\ call = NoCall
    /\ todos = NoTodoIndex

SkillChanged ==
    /\ edits' = edits + 1
    /\ fresh' = 0
    /\ arg' = << >>
    /\ call' = NoCall
    /\ UNCHANGED << index, status, before, lastGood, todos >>

\* a skill file is created or overwritten from outside, and the directory
\* with it
WriteSkill(p, f) ==
    /\ edits < MaxChanges
    /\ fs[p] # f
    /\ fs' = [fs EXCEPT ![p] = f, ![SkillsDir] = TextFile(<< >>)]
    /\ SkillChanged

\* the directory is created empty or removed with its files
ChangeDir(made) ==
    /\ edits < MaxChanges
    /\ fs[SkillsDir].exists # made
    /\ fs' = [p \in SkillPaths |-> IF p = SkillsDir /\ made THEN TextFile(<< >>) ELSE NoFile]
    /\ SkillChanged

\* index.build()
SkillBuild ==
    /\ fresh < MaxRepeat
    /\ BuildReturns(SkillIndex_build(index, fs))
    /\ before' = index
    /\ fresh' = fresh + 1
    /\ arg' = << >>
    /\ call' = NoCall
    /\ UNCHANGED << fs, edits, todos >>

SkillQueried(fn, text, r) ==
    /\ status = "built"
    /\ arg' = text
    /\ call' = Called(fn, r.raised, r.result)
    /\ UNCHANGED << fs, index, status, fresh, edits, before, lastGood, todos >>

CallSearch(text) == SkillQueried("search", text, SkillIndex_search(index, text))
CallByTrigger(text) == SkillQueried("by_trigger", text, by_trigger(index, text))
CallResolveShorthand(text) ==
    SkillQueried("resolve_shorthand", text, resolve_shorthand(index, text))

SkillNext ==
    \/ \E p \in SkillFiles, f \in SkillContents : WriteSkill(p, f)
    \/ \E made \in BOOLEAN : ChangeDir(made)
    \/ SkillBuild
    \/ \E text \in Shorthands : CallSearch(text)
    \/ \E text \in Shorthands : CallByTrigger(text)
    \/ \E text \in Shorthands : CallResolveShorthand(text)

SkillSpec == SkillInit /\ [][SkillNext]_vars

-----------------------------------------------------------------------------
(* Properties of SkillIndex.                                               *)

\* the files of the model that _parse_skill can load: valid UTF-8 and a
\* front matter that is a mapping
Loadable == { TextFile(TextSkillList), TextFile(TextSkillString), TextFile(TextSkillNumber) }

LoadablePaths == { p \in SkillFiles : fs[p] \in Loadable }

\* C22: SkillIndex.build() never raises because of a single skill file: a
\* file whose parse fails is skipped and every other file is still loaded,
\* wherever the failing file falls in the scan order, so that skills holds
\* exactly the slugs of the files that parsed; a missing or empty skills
\* directory yields an empty skills mapping, and each build() fully replaces
\* the previous mapping.
C22_BuildSkipsFailures ==
    /\ status # "aborted"
    /\ (status = "built" /\ fresh >= 1) =>
           /\ { index.skills[i].k : i \in 1..Len(index.skills) }
                  = { PathStem(p) : p \in LoadablePaths }
           /\ \A i \in 1..Len(index.skills) :
                  /\ index.skills[i].v.path \in LoadablePaths
                  /\ PathStem(index.skills[i].v.path) = index.skills[i].k
                  /\ \A j \in 1..Len(index.skills) : index.skills[j].k = index.skills[i].k => j = i
           /\ ~fs[SkillsDir].exists => index.skills = EmptyDict

\* a.md, the first file of the scan, is not valid UTF-8 and b.md was loaded
\* after it
C22_Witness ==
    /\ status = "built"
    /\ fresh >= 1
    /\ fs[<< "a", ".", "m", "d" >>] = BytesFile
    /\ DictKeys(index.skills) = << << "b" >> >>

\* value is a str that contains q when lowercased
FieldHas(value, q) == value.t = "str" /\ Contains(StrLower(value.s), q)

\* one of the strings of a list field contains q when lowercased
ListHas(value, q) ==
    value.t = "list" /\ \E i \in 1..Len(value.items) : FieldHas(value.items[i], q)

\* a trigger of the skill equals text, letter case ignored
HasTrigger(skill, text) ==
    /\ skill.triggers.t = "list"
    /\ \E i \in 1..Len(skill.triggers.items) :
           /\ skill.triggers.items[i].t = "str"
           /\ StrLower(skill.triggers.items[i].s) = StrLower(text)

\* the skills of the index with such a trigger, in the order of the index
ExactSkills(text) == SelectSeq(DictValues(index.skills), LAMBDA sk : HasTrigger(sk, text))

\* the skills of the index that the full-text search of text matches
FoundSkills(text) ==
    SelectSeq(DictValues(index.skills),
              LAMBDA sk : \/ FieldHas(sk.name, StrLower(text))
                          \/ FieldHas(sk.description, StrLower(text))
                          \/ ListHas(sk.triggers, StrLower(text))
                          \/ ListHas(sk.tags, StrLower(text)))

ShorthandSkills(exact, text) == IF exact # << >> THEN exact ELSE FoundSkills(text)

\* C23: resolve_shorthand(text) returns exactly the skills that have at
\* least one trigger equal to the text case-insensitively whenever there is
\* such a skill, and otherwise returns exactly the result of the full-text
\* search(text), which matches case-insensitively on name, description,
\* triggers or tags; by_trigger gives the same result for a trigger in any
\* letter case.
C23_ShorthandResolution ==
    /\ call.fn = "resolve_shorthand" =>
           call.raised = "" /\ call.result = ShorthandSkills(ExactSkills(arg), arg)
    /\ call.fn = "search" => call.raised = "" /\ call.result = FoundSkills(arg)
    /\ call.fn = "by_trigger" => call.raised = "" /\ call.result = ExactSkills(arg)

\* the triggers written into the front matter of a skill file, as written
WrittenTriggers(file) ==
    IF file = TextFile(TextSkillList) THEN << YStr(<< "t" >>), YStr(<< "u" >>), YStr(<< "t" >>) >>
    ELSE IF file = TextFile(TextSkillString)
    THEN << YStr(<< "T" >>), YStr(<< "u" >>), YStr(<< "T" >>) >>
    ELSE << >>

\* the first occurrences of the elements of l, in the order of l
FirstOccurrences(l) ==
    LET first == { i \in 1..Len(l) : \A j \in 1..(i - 1) : l[j] # l[i] }
        nth(n) == CHOOSE i \in first : Cardinality({ j \in first : j < i }) = n - 1
    IN [n \in 1..Cardinality(first) |-> l[nth(n)]]

\* C24: for every SkillDescriptor held by a SkillIndex after build(),
\* triggers is ordered and contains no duplicates, whether the front matter
\* gave the triggers as a list or as a comma-separated string.
C24_TriggersUnique ==
    (status = "built" /\ fresh >= 1) =>
        \A i \in 1..Len(index.skills) :
            index.skills[i].v.triggers.items =
                FirstOccurrences(WrittenTriggers(fs[index.skills[i].v.path]))

=============================================================================
